---- MODULE Spec2Model ----
(***************************************************************************)
(* Confidence hooks of qstudio/clauded: the transcript reader, the         *)
(* explicit-confidence extraction, the heuristic estimators, the risk      *)
(* classifiers and the main() of every hook, as state machines.            *)
(*                                                                         *)
(* A text is a record [s |-> string, pad |-> n]: the characters s followed *)
(* by n filler characters "~".  The filler occurs in no keyword and in no  *)
(* pattern of the source and is not whitespace, so it only adds length;    *)
(* it lets the length bands (> 500, > 1000) be reached with short s.       *)
(* Python's None is the empty tuple, a returned value v the 1-tuple <<v>>. *)
(***************************************************************************)
EXTENDS Integers, Sequences, FiniteSets, TLC

VARIABLES
    fn,      \* pure-function specifications: the function applied last ("" before)
    arg,     \* its argument: [text, tools] or a transcript
    res,     \* its result
    hook,    \* hook specification: the hook run last ("none" before the first run)
    inp,     \* the input of that run (stdin, transcript, configuration file, start-up)
    out,     \* what the run wrote to standard output, in order
    exit,    \* its exit status
    fault,   \* "none", "caught" (an exception reached main's handler), "uncaught"
    pcts,    \* the percentages the run compared with the threshold or displayed
    runs,    \* number of runs made with this input
    config_cache, \* config-cache.py _config_cache of a long-lived process: data, timestamp
    now,          \* the clock, time.time(), in seconds
    config_file,  \* the configuration file as it is on disk
    calls         \* the calls of config-cache.py made so far, in order

vars == <<fn, arg, res, hook, inp, out, exit, fault, pcts, runs, config_cache, now,
          config_file, calls>>
pureVars == <<fn, arg, res>>
hookVars == <<hook, inp, out, exit, fault, pcts, runs>>
cacheVars == <<config_cache, now, config_file, calls>>

(***************************************************************************)
(* Bounds of the model.                                                    *)
(***************************************************************************)
MaxWords == 2      \* words per generated text of the estimators and classifiers
MaxStatements == 3 \* words per generated text of confidence statements
MaxTools == 4      \* tool calls per generated tool list
PadMid == 600      \* filler lengths that reach the length bands
PadLong == 1100
MaxRuns == 2       \* repeated runs of a hook on the same input
MaxLines == 3      \* lines per generated transcript
MaxCalls == 3      \* calls of config-cache.py in a process
MaxClock == 45     \* seconds the clock advances in a process
Epoch == 100       \* the clock when the process starts

None == <<>>
Some(v) == <<v>>
Max(a, b) == IF a > b THEN a ELSE b
Min(a, b) == IF a < b THEN a ELSE b

(***************************************************************************)
(* Strings: str.lower(), the `in` operator, str.count(), str.strip().      *)
(***************************************************************************)
LowerMap ==
    [A |-> "a", B |-> "b", C |-> "c", D |-> "d", E |-> "e", F |-> "f", G |-> "g",
     H |-> "h", I |-> "i", J |-> "j", K |-> "k", L |-> "l", M |-> "m", N |-> "n",
     O |-> "o", P |-> "p", Q |-> "q", R |-> "r", S |-> "s", T |-> "t", U |-> "u",
     V |-> "v", W |-> "w", X |-> "x", Y |-> "y", Z |-> "z"]

CharAt(s, i) == IF i >= 1 /\ i <= Len(s) THEN SubSeq(s, i, i) ELSE ""

LowerChar(c) == IF c \in DOMAIN LowerMap THEN LowerMap[c] ELSE c

RECURSIVE Lower(_)
Lower(s) ==
    IF s = "" THEN "" ELSE LowerChar(SubSeq(s, 1, 1)) \o Lower(SubSeq(s, 2, Len(s)))

StartsAt(s, i, k) == i >= 1 /\ i + Len(k) - 1 <= Len(s) /\ SubSeq(s, i, i + Len(k) - 1) = k

Contains(s, k) == \E i \in 1..(Len(s) - Len(k) + 1) : StartsAt(s, i, k)

\* sum(1 for word in words if word in s)
CountIn(s, words) == Cardinality({w \in words : Contains(s, w)})

AnyIn(s, words) == \E w \in words : Contains(s, w)

\* s.count(k): the number of non-overlapping occurrences, scanning from the left
RECURSIVE CountFrom(_, _, _)
CountFrom(s, k, i) ==
    IF i + Len(k) - 1 > Len(s) THEN 0
    ELSE IF StartsAt(s, i, k) THEN 1 + CountFrom(s, k, i + Len(k))
    ELSE CountFrom(s, k, i + 1)

Count(s, k) == CountFrom(s, k, 1)

\* The code fence of the source, three backquotes: a TLA+ string holds no backquote,
\* so the apostrophe, which occurs in no keyword or pattern of the source, stands for it.
Fence == "'''"

IsSpace(c) == c \in {" ", "\t", "\n", "\r"}
IsDigit(c) == c \in {"0", "1", "2", "3", "4", "5", "6", "7", "8", "9"}
IsLetter(c) == c \in DOMAIN LowerMap \/ c \in {LowerMap[u] : u \in DOMAIN LowerMap}

\* s.strip()
RECURSIVE LStrip(_)
LStrip(s) == IF s # "" /\ IsSpace(SubSeq(s, 1, 1)) THEN LStrip(SubSeq(s, 2, Len(s))) ELSE s

RECURSIVE RStrip(_)
RStrip(s) ==
    IF s # "" /\ IsSpace(SubSeq(s, Len(s), Len(s))) THEN RStrip(SubSeq(s, 1, Len(s) - 1)) ELSE s

Strip(s) == LStrip(RStrip(s))

(***************************************************************************)
(* Texts: s followed by pad filler characters.                             *)
(***************************************************************************)
Text(s, pad) == [s |-> s, pad |-> pad]
TLen(t) == Len(t.s) + t.pad
\* len(text.strip()): the filler is not whitespace, so with pad > 0 only the left is stripped
TStripLen(t) == IF t.pad = 0 THEN Len(Strip(t.s)) ELSE Len(LStrip(t.s)) + t.pad
\* bool(text): a non-empty string is truthy
Truthy(t) == TLen(t) > 0

(***************************************************************************)
(* Regular expressions of the source, by what re.search does: the          *)
(* leftmost position at which the pattern matches, greedy quantifiers.     *)
(***************************************************************************)
RECURSIVE SkipSpace(_, _)
SkipSpace(s, i) == IF IsSpace(CharAt(s, i)) THEN SkipSpace(s, i + 1) ELSE i

RECURSIVE DigitRun(_, _)
DigitRun(s, i) == IF IsDigit(CharAt(s, i)) THEN 1 + DigitRun(s, i + 1) ELSE 0

DigitVal(c) == CHOOSE n \in 0..9 : SubSeq("0123456789", n + 1, n + 1) = c

\* int(digits)
RECURSIVE ToInt(_)
ToInt(d) ==
    IF d = "" THEN 0
    ELSE 10 * ToInt(SubSeq(d, 1, Len(d) - 1)) + DigitVal(SubSeq(d, Len(d), Len(d)))

\* (\d{1,3})% at position j: the group, or None.  A run of more than three digits
\* cannot match at j: after three digits the next character is a digit, not %.
PercentAt(s, j) ==
    LET n == DigitRun(s, j)
    IN  IF n >= 1 /\ n <= 3 /\ CharAt(s, j + n) = "%"
        THEN Some(ToInt(SubSeq(s, j, j + n - 1)))
        ELSE None

\* confidence:\s*(\d{1,3})% at position i
ConfidenceAt(s, i) ==
    IF StartsAt(s, i, "confidence:") THEN PercentAt(s, SkipSpace(s, i + 11)) ELSE None

\* confidence\s*[:\-]\s*(\d{1,3})% at position i
DashConfidenceAt(s, i) ==
    IF StartsAt(s, i, "confidence")
    THEN LET j == SkipSpace(s, i + 10)
         IN  IF CharAt(s, j) \in {":", "-"} THEN PercentAt(s, SkipSpace(s, j + 1)) ELSE None
    ELSE None

\* (\d{1,3})%\s*confident at position i
ConfidentAt(s, i) ==
    LET g == PercentAt(s, i)
    IN  IF g # None /\ StartsAt(s, SkipSpace(s, i + DigitRun(s, i) + 1), "confident")
        THEN g
        ELSE None

\* confidence:\s*\d+% at position i (no group, any number of digits)
AnyDigitsConfidenceAt(s, i) ==
    /\ StartsAt(s, i, "confidence:")
    /\ LET j == SkipSpace(s, i + 11)
           n == DigitRun(s, j)
       IN  n >= 1 /\ CharAt(s, j + n) = "%"

\* Mutant of SearchConfidence: the last match instead of the leftmost.
SearchConfidence_rightmost(s) ==
    LET hits == {i \in 1..Len(s) : ConfidenceAt(s, i) # None}
    IN  IF hits = {} THEN None
        ELSE ConfidenceAt(s, CHOOSE i \in hits : \A j \in hits : i >= j)

\* re.search(r'confidence:\s*(\d{1,3})%', s): group 1 of the leftmost match, or None
SearchConfidence(s) ==
    LET hits == {i \in 1..Len(s) : ConfidenceAt(s, i) # None}
    IN  IF hits = {} THEN None
        ELSE ConfidenceAt(s, CHOOSE i \in hits : \A j \in hits : i <= j)

SearchDashConfidence(s) ==
    LET hits == {i \in 1..Len(s) : DashConfidenceAt(s, i) # None}
    IN  IF hits = {} THEN None
        ELSE DashConfidenceAt(s, CHOOSE i \in hits : \A j \in hits : i <= j)

SearchConfident(s) ==
    LET hits == {i \in 1..Len(s) : ConfidentAt(s, i) # None}
    IN  IF hits = {} THEN None
        ELSE ConfidentAt(s, CHOOSE i \in hits : \A j \in hits : i <= j)

\* re.search(r'confidence:\s*\d+%', s) is not None
SearchAnyDigitsConfidence(s) == \E i \in 1..Len(s) : AnyDigitsConfidenceAt(s, i)

\* re.search(r'^[0-9]+\.', s, re.MULTILINE) is not None
HasNumberedLine(s) ==
    \E i \in 1..Len(s) :
        /\ i = 1 \/ CharAt(s, i - 1) = "\n"
        /\ DigitRun(s, i) >= 1
        /\ CharAt(s, i + DigitRun(s, i)) = "."

(***************************************************************************)
(* Explicit confidence statements.                                         *)
(***************************************************************************)
\* confidence-notification-hook.py: the three patterns are tried in order, each on
\* the whole lower-cased content
extract_confidence_from_response(t) ==
    IF ~Truthy(t) THEN None
    ELSE LET content_lower == Lower(t.s)
         IN  IF SearchConfidence(content_lower) # None THEN SearchConfidence(content_lower)
             ELSE IF SearchDashConfidence(content_lower) # None
                  THEN SearchDashConfidence(content_lower)
             ELSE SearchConfident(content_lower)

(***************************************************************************)
(* Heuristic estimators.                                                   *)
(***************************************************************************)
Clamp(lo, hi, score) == Max(lo, Min(hi, score))

\* confidence-validator.py estimate_confidence, before the final clamp
validator_raw_score(t) ==
    LET response == t.s
        response_lower == Lower(t.s)
        success_count ==
            CountIn(response_lower,
                    {"successfully", "completed", "fixed", "working", "done", "resolved"})
        safe_tool_count == CountIn(response, {"Read", "LS", "Grep", "Glob"})
        medium_tool_count == CountIn(response, {"Bash", "WebFetch"})
        risky_tool_count == CountIn(response, {"Edit", "Write", "MultiEdit"})
        strong_uncertainty_count ==
            CountIn(response_lower,
                    {"not sure", "unclear", "uncertain", "i think", "i believe", "i assume"})
        hedging_count ==
            CountIn(response_lower,
                    {"might", "maybe", "possibly", "probably", "likely", "should work",
                     "seems", "appears", "could be", "might be", "try this", "attempt to"})
        question_count == Count(response, "?")
        error_count ==
            CountIn(response_lower, {"error", "issue", "problem", "failed", "broken"})
        solution_count == CountIn(response_lower, {"fix", "solve", "resolve", "correct"})
        code_blocks == Count(response, Fence)
    IN  35
        + (IF AnyIn(response_lower, {"successfully completed", "working correctly",
                                     "fixed the issue", "problem solved"})
           THEN 20 ELSE 0)
        + (IF success_count > 0 THEN Min(success_count * 8, 15) ELSE 0)
        + (IF AnyIn(response_lower,
                    {"exactly", "precisely", "specifically", "correct", "accurate"})
           THEN 8 ELSE 0)
        + (IF safe_tool_count > 0 THEN Min(safe_tool_count * 5, 10) ELSE 0)
        + (IF medium_tool_count > 0 THEN Min(medium_tool_count * 8, 15) ELSE 0)
        + (IF risky_tool_count > 0 THEN Min(risky_tool_count * 6, 12) ELSE 0)
        - (IF strong_uncertainty_count > 0 THEN strong_uncertainty_count * 12 ELSE 0)
        - (IF hedging_count > 0 THEN hedging_count * 6 ELSE 0)
        - (IF question_count > 0 THEN Min(question_count * 4, 12) ELSE 0)
        - (IF error_count > solution_count THEN (error_count - solution_count) * 8 ELSE 0)
        + (IF TLen(t) < 30 THEN -15 ELSE IF TLen(t) < 100 THEN -8
           ELSE IF TLen(t) > 1000 THEN 8 ELSE 0)
        + (IF code_blocks > 0 THEN Min(code_blocks * 6, 15) ELSE 0)
        + (IF HasNumberedLine(response) THEN 5 ELSE 0)

\* Mutant of validator_clamp: the clamp left out.
validator_clamp_missing(score) == score

\* Mutant of validator_clamp: the bounds of calculate_confidence_score.
validator_clamp_wide(score) == Max(10, Min(95, score))

\* the final clamp of the validator's estimate_confidence
validator_clamp(score) == Max(15, Min(85, score))

validator_estimate_confidence(t) ==
    IF ~Truthy(t) THEN 35 ELSE validator_clamp(validator_raw_score(t))

\* confidence-unified-posttool.py estimate_confidence, before the final clamp
posttool_raw_score(t, tool_calls) ==
    LET response_lower == Lower(t.s)
    IN  60
        + (IF Len(tool_calls) > 0 THEN 15 ELSE 0)
        + (IF AnyIn(response_lower, {"successfully", "completed", "working", "fixed"})
           THEN 10 ELSE 0)
        - (IF AnyIn(response_lower, {"might", "maybe", "possibly", "not sure"})
           THEN 15 ELSE 0)
        + (IF TLen(t) > 500 THEN 5 ELSE IF TLen(t) < 50 THEN -10 ELSE 0)

posttool_clamp(score) == Max(30, Min(85, score))

posttool_estimate_confidence(t, tool_calls) ==
    IF ~Truthy(t) THEN 50 ELSE posttool_clamp(posttool_raw_score(t, tool_calls))

\* confidence-score-display.py calculate_confidence_score after the explicit check,
\* before the final clamp
display_raw_score(t) ==
    LET response == t.s
        response_lower == Lower(t.s)
    IN  50
        + (IF AnyIn(response_lower, {"successfully", "completed", "fixed", "working"})
           THEN 15 ELSE 0)
        + (IF AnyIn(response_lower, {"error", "failed", "issue", "problem"}) THEN 10 ELSE 0)
        + (IF AnyIn(response, {"<function_calls>", "<invoke>", "Read", "Write", "Edit",
                               "Bash"})
           THEN 20 ELSE 0)
        + (IF Contains(response, Fence) \/ Contains(response_lower, "function")
              \/ Contains(response_lower, "class")
           THEN 15 ELSE 0)
        - (IF AnyIn(response_lower,
                    {"might", "maybe", "possibly", "unclear", "not sure", "uncertain"})
           THEN 20 ELSE 0)
        + (IF TLen(t) < 100 THEN -10 ELSE IF TLen(t) > 1000 THEN 10 ELSE 0)

display_clamp(score) == Max(10, Min(95, score))

\* (score, reasoning) as [score, explicit]: explicit tells whether the single reason
\* "Explicit confidence statement found" was returned
calculate_confidence_score(t) ==
    IF ~Truthy(t) THEN [score |-> 50, explicit |-> FALSE]
    ELSE LET confidence_match == SearchConfidence(Lower(t.s))
         IN  IF confidence_match # None
             THEN [score |-> confidence_match[1], explicit |-> TRUE]
             ELSE [score |-> display_clamp(display_raw_score(t)), explicit |-> FALSE]

\* confidence-notification-hook.py estimate_confidence, before the final clamp
notification_raw_score(t, tool_calls) ==
    LET content == t.s
        content_lower == Lower(t.s)
        uncertainty_count ==
            CountIn(content_lower, {"might", "maybe", "possibly", "unclear", "not sure",
                                    "uncertain", "probably", "likely"})
        hedging_count ==
            CountIn(content_lower,
                    {"seems", "appears", "could be", "might be", "should work", "try"})
    IN  50
        + (IF AnyIn(content_lower, {"successfully", "completed", "fixed", "working", "done"})
           THEN 15 ELSE 0)
        + (IF AnyIn(content_lower, {"correct", "accurate", "precise", "exactly"})
           THEN 10 ELSE 0)
        + (IF Len(tool_calls) > 0 THEN 20 ELSE 0)
        + (IF Contains(content, Fence) \/ Contains(content_lower, "function")
              \/ Contains(content_lower, "class")
           THEN 10 ELSE 0)
        - uncertainty_count * 5
        - hedging_count * 3
        - (IF TLen(t) < 50 THEN 15 ELSE 0)
        + (IF TLen(t) > 500 THEN 10 ELSE 0)

notification_clamp(score) == Max(10, Min(95, score))

notification_estimate_confidence(t, tool_calls) ==
    IF ~Truthy(t) THEN 50 ELSE notification_clamp(notification_raw_score(t, tool_calls))

\* confidence-validator.py main, lines 235-247: explicit percentage or estimate
validator_confidence_pct(t) ==
    LET confidence_match == SearchConfidence(Lower(t.s))
    IN  IF confidence_match # None THEN confidence_match[1]
        ELSE validator_estimate_confidence(t)

(***************************************************************************)
(* Risk classifiers.  A tool call is the name of its tool.                 *)
(***************************************************************************)
high_risk_tools ==
    {"edit", "write", "multiedit", "delete", "bash", "remove", "move", "notebookedit",
     "rm ", "mv ", "cp -f"}
medium_risk_tools == {"webfetch", "task", "commit", "push", "git "}
low_risk_tools == {"read", "grep", "glob", "ls", "notebookread"}
suggestion_keywords ==
    {"suggest", "recommend", "should", "could", "would", "consider", "improve", "fix",
     "change", "update", "modify", "implement", "propose", "add", "remove", "replace",
     "refactor", "optimize"}

\* Mutant of ToolCallRiskFrom: a low-risk tool name sets low whatever was found before.
RECURSIVE ToolCallRiskFrom_low_overrides(_, _, _)
ToolCallRiskFrom_low_overrides(tool_calls, i, cur) ==
    IF i > Len(tool_calls) THEN cur
    ELSE LET tool_name == Lower(tool_calls[i])
         IN  IF AnyIn(tool_name, high_risk_tools) THEN "high"
             ELSE IF AnyIn(tool_name, medium_risk_tools)
                  THEN ToolCallRiskFrom_low_overrides(tool_calls, i + 1, "medium")
             ELSE IF AnyIn(tool_name, low_risk_tools)
                  THEN ToolCallRiskFrom_low_overrides(tool_calls, i + 1, "low")
             ELSE ToolCallRiskFrom_low_overrides(tool_calls, i + 1, cur)

\* confidence-scorer.py analyze_operation_risk, the loop over tool_calls from call i on,
\* with tool_call_risk = cur so far
RECURSIVE ToolCallRiskFrom(_, _, _)
ToolCallRiskFrom(tool_calls, i, cur) ==
    IF i > Len(tool_calls) THEN cur
    ELSE LET tool_name == Lower(tool_calls[i])
         IN  IF AnyIn(tool_name, high_risk_tools) THEN "high"
             ELSE IF AnyIn(tool_name, medium_risk_tools)
                  THEN ToolCallRiskFrom(tool_calls, i + 1, "medium")
             ELSE IF cur = "none" /\ AnyIn(tool_name, low_risk_tools)
                  THEN ToolCallRiskFrom(tool_calls, i + 1, "low")
             ELSE ToolCallRiskFrom(tool_calls, i + 1, cur)

tool_call_risk(tool_calls) == ToolCallRiskFrom(tool_calls, 1, "none")

analyze_operation_risk(response_content, tool_calls) ==
    LET response_lower == Lower(response_content)
        high_risk_count == CountIn(response_lower, high_risk_tools)
        medium_risk_count == CountIn(response_lower, medium_risk_tools)
        low_risk_count == CountIn(response_lower, low_risk_tools)
    IN  IF high_risk_count > 0 \/ tool_call_risk(tool_calls) = "high" THEN "high"
        ELSE IF medium_risk_count > 0 \/ tool_call_risk(tool_calls) = "medium" THEN "medium"
        ELSE IF low_risk_count > 0 \/ tool_call_risk(tool_calls) = "low"
                \/ Len(tool_calls) > 0
             THEN "low"
        ELSE IF AnyIn(response_lower, suggestion_keywords) THEN "low"
        ELSE "none"

high_risk_keywords ==
    {"delete", "remove", "rm ", "unlink", "drop", "truncate", "format", "wipe", "destroy",
     "kill", "terminate", "sudo", "chmod", "chown", "mv ", "move"}
medium_risk_keywords ==
    {"edit", "modify", "change", "update", "replace", "install", "config", "settings",
     "deploy"}

\* Mutant of assess_risk_level: the MEDIUM vocabulary is tested before the HIGH one.
assess_risk_level_medium_first(response_content, tool_calls) ==
    LET response_lower == Lower(response_content)
    IN  IF AnyIn(response_lower, medium_risk_keywords) THEN "medium"
        ELSE IF AnyIn(response_lower, high_risk_keywords) THEN "high"
        ELSE IF Len(tool_calls) > 3 THEN "medium"
        ELSE "low"

\* confidence-unified-posttool.py assess_risk_level
assess_risk_level(response_content, tool_calls) ==
    LET response_lower == Lower(response_content)
    IN  IF AnyIn(response_lower, high_risk_keywords) THEN "high"
        ELSE IF AnyIn(response_lower, medium_risk_keywords) THEN "medium"
        ELSE IF Len(tool_calls) > 3 THEN "medium"
        ELSE "low"

(***************************************************************************)
(* Generated inputs: texts are up to n words of a vocabulary joined by one *)
(* space; tool lists are up to n tool names.                               *)
(***************************************************************************)
Join(a, b) == IF a = "" THEN b ELSE IF b = "" THEN a ELSE a \o " " \o b

RECURSIVE TextsUpTo(_, _)
TextsUpTo(words, n) ==
    IF n = 0 THEN {""}
    ELSE LET shorter == TextsUpTo(words, n - 1)
         IN  shorter \cup {Join(p, w) : p \in shorter, w \in words}

RECURSIVE SeqsUpTo(_, _)
SeqsUpTo(names, n) ==
    IF n = 0 THEN {<<>>}
    ELSE LET shorter == SeqsUpTo(names, n - 1)
         IN  shorter \cup {Append(p, w) : p \in shorter, w \in names}

HookInit ==
    /\ hook = "none"
    /\ inp = <<>>
    /\ out = <<>>
    /\ exit = 0
    /\ fault = "none"
    /\ pcts = {}
    /\ runs = 0

\* config-cache.py as loaded: the module-level _config_cache, no file, no call yet
CacheInit ==
    /\ config_cache = [data |-> None, timestamp |-> 0]
    /\ now = Epoch
    /\ config_file = [k |-> "missing"]
    /\ calls = <<>>

PureInit ==
    /\ fn = ""
    /\ arg = <<>>
    /\ res = None

\* One application of a pure function f to the drawn argument.
Apply(name, value) ==
    /\ fn = ""
    /\ fn' = name
    /\ res' = value
    /\ UNCHANGED <<arg, hookVars, cacheVars>>

(***************************************************************************)
(* SpecExplicit: the explicit-confidence determination of each estimator   *)
(* on texts made of confidence statements.                                 *)
(***************************************************************************)
StatementWords ==
    {"Confidence: 73%", "confidence: 20%", "CONFIDENCE:250%", "confidence: 1234%",
     "85% confident", "confidence - 40%", "All done."}

ExplicitInit ==
    /\ fn = ""
    /\ arg \in {[text |-> Text(s, 0)] : s \in TextsUpTo(StatementWords, MaxStatements)}
    /\ res = None
    /\ HookInit
    /\ CacheInit

Explicit_calculate_confidence_score ==
    Apply("calculate_confidence_score", calculate_confidence_score(arg.text))

Explicit_validator_confidence_pct ==
    Apply("validator_confidence_pct", Some(validator_confidence_pct(arg.text)))

Explicit_extract_confidence_from_response ==
    Apply("extract_confidence_from_response", extract_confidence_from_response(arg.text))

ExplicitNext ==
    \/ Explicit_calculate_confidence_score
    \/ Explicit_validator_confidence_pct
    \/ Explicit_extract_confidence_from_response

SpecExplicit == ExplicitInit /\ [][ExplicitNext]_vars

\* The confidence a function of SpecExplicit determined, as an option.
Determined ==
    IF fn = "calculate_confidence_score" THEN Some(res.score) ELSE res

\* The text contains "confidence: 73%" in some letter case.
Has73 == fn # "" /\ Contains(Lower(arg.text.s), "confidence: 73%")

\* The first place of "confidence: 73%" in the lower-cased text.
First73 ==
    CHOOSE i \in 1..Len(arg.text.s) :
        /\ StartsAt(Lower(arg.text.s), i, "confidence: 73%")
        /\ \A j \in 1..(i - 1) : ~StartsAt(Lower(arg.text.s), j, "confidence: 73%")

\* C5 as stated: for every text that contains "confidence: 73%" in any letter case,
\* each estimator determines exactly 73, whatever else the text contains, other
\* confidence statements before or after it included.
C5_Always73 == Has73 => Determined = Some(73)

\* C5 amended: each estimator determines the percentage of the leftmost statement of
\* the form "confidence:" + optional whitespace + 1 to 3 digits + "%"; for a text that
\* contains "confidence: 73%" it is 73 when no such statement starts before it,
\* whatever follows it and whatever else comes before it.
C5_Leftmost73 ==
    (Has73 /\ \A j \in 1..(First73 - 1) : ConfidenceAt(Lower(arg.text.s), j) = None)
        => Determined = Some(73)

\* C5 witness: the notification hook's extraction returned 73 for a text in which a
\* "85% confident" phrase precedes the statement and another statement follows it.
C5_Witness ==
    /\ fn = "extract_confidence_from_response"
    /\ arg.text.s = "85% confident Confidence: 73% confidence: 20%"
    /\ res = Some(73)

(***************************************************************************)
(* SpecEstimate: the four heuristic estimators on generated texts, with    *)
(* and without filler, with and without a tool call.                       *)
(***************************************************************************)
EstimateWords ==
    {"I successfully completed and fixed the issue exactly.",
     "Used Read, Grep, Bash, WebFetch, Edit and Write.",
     "Not sure, unclear, I think it might be broken?",
     "maybe possibly probably likely seems appears",
     "'''code''' in a function",
     "Plan:\n1. try this",
     "error: it failed",
     "Read LS Grep, then Write and MultiEdit",
     "why? how? when? really?",
     "Confidence: 250%"}

Pads == {0, PadMid, PadLong}

EstimateInit ==
    /\ fn = ""
    /\ arg \in {[text |-> Text(s, pad), tools |-> tl] :
                  s \in TextsUpTo(EstimateWords, MaxWords), pad \in Pads,
                  tl \in {<<>>, <<"Edit">>}}
    /\ res = None
    /\ HookInit
    /\ CacheInit

Estimate_validator ==
    Apply("validator_estimate_confidence", validator_estimate_confidence(arg.text))

Estimate_posttool ==
    Apply("posttool_estimate_confidence",
          posttool_estimate_confidence(arg.text, arg.tools))

Estimate_calculate ==
    Apply("calculate_confidence_score", calculate_confidence_score(arg.text))

Estimate_notification ==
    Apply("notification_estimate_confidence",
          notification_estimate_confidence(arg.text, arg.tools))

EstimateNext ==
    \/ Estimate_validator
    \/ Estimate_posttool
    \/ Estimate_calculate
    \/ Estimate_notification

SpecEstimate == EstimateInit /\ [][EstimateNext]_vars

\* C6: every heuristic score lies inside the clamp bounds of its estimator, the
\* empty-input early returns included: the validator's in [15,85], the unified
\* PostToolUse hook's in [30,85], calculate_confidence_score (when it matched no
\* explicit statement) and the notification hook's in [10,95].
C6_WithinClamp ==
    /\ fn = "validator_estimate_confidence" => res >= 15 /\ res <= 85
    /\ fn = "posttool_estimate_confidence" => res >= 30 /\ res <= 85
    /\ (fn = "calculate_confidence_score" /\ ~res.explicit)
           => res.score >= 10 /\ res.score <= 95
    /\ fn = "notification_estimate_confidence" => res >= 10 /\ res <= 95

\* C6 witness: the validator's adjustments summed to less than 15 and 15 was returned.
C6_Witness ==
    /\ fn = "validator_estimate_confidence"
    /\ Truthy(arg.text)
    /\ validator_raw_score(arg.text) < 15
    /\ res = 15

(***************************************************************************)
(* SpecRisk: the two risk classifiers on generated texts and tool lists.   *)
(***************************************************************************)
RiskWords == {"delete", "update", "git push", "read", "hello"}
ToolNames == {"Read", "WebFetch", "Edit"}

RiskInit ==
    /\ fn = ""
    /\ arg \in {[text |-> Text(s, 0), tools |-> tl] :
                  s \in TextsUpTo(RiskWords, MaxWords), tl \in SeqsUpTo(ToolNames, MaxTools)}
    /\ res = None
    /\ HookInit
    /\ CacheInit

Risk_analyze_operation_risk ==
    Apply("analyze_operation_risk", analyze_operation_risk(arg.text.s, arg.tools))

Risk_assess_risk_level ==
    Apply("assess_risk_level", assess_risk_level(arg.text.s, arg.tools))

\* the tool_call_risk that analyze_operation_risk returns in its details
Risk_tool_call_risk ==
    Apply("tool_call_risk", tool_call_risk(arg.tools))

RiskNext ==
    \/ Risk_analyze_operation_risk
    \/ Risk_assess_risk_level
    \/ Risk_tool_call_risk

SpecRisk == RiskInit /\ [][RiskNext]_vars

\* The signals of each classifier in the drawn argument.
ScorerHigh ==
    \/ AnyIn(Lower(arg.text.s), high_risk_tools)
    \/ \E i \in 1..Len(arg.tools) : AnyIn(Lower(arg.tools[i]), high_risk_tools)
ScorerMedium ==
    \/ AnyIn(Lower(arg.text.s), medium_risk_tools)
    \/ \E i \in 1..Len(arg.tools) : AnyIn(Lower(arg.tools[i]), medium_risk_tools)
PosttoolHigh == AnyIn(Lower(arg.text.s), high_risk_keywords)
PosttoolMedium == AnyIn(Lower(arg.text.s), medium_risk_keywords) \/ Len(arg.tools) > 3

\* C8: a text with at least one HIGH-vocabulary term is classified high whatever
\* MEDIUM or LOW terms it also holds and however many tool calls there are; medium is
\* returned only when no HIGH signal is present, low only when neither a HIGH nor a
\* MEDIUM signal is present.
C8_RiskPriority ==
    /\ fn = "analyze_operation_risk" =>
          /\ AnyIn(Lower(arg.text.s), high_risk_tools) => res = "high"
          /\ res = "medium" => ~ScorerHigh
          /\ res = "low" => ~ScorerHigh /\ ~ScorerMedium
    /\ fn = "assess_risk_level" =>
          /\ AnyIn(Lower(arg.text.s), high_risk_keywords) => res = "high"
          /\ res = "medium" => ~PosttoolHigh
          /\ res = "low" => ~PosttoolHigh /\ ~PosttoolMedium

\* C8 witness: "delete update" with four tool calls was classified high by the
\* unified PostToolUse classifier.
C8_Witness ==
    /\ fn = "assess_risk_level"
    /\ arg.text.s = "delete update"
    /\ Len(arg.tools) = 4
    /\ res = "high"

(***************************************************************************)
(* Transcript reader.  A transcript is [readable, lines]; a line is what   *)
(* json.loads(line.strip()) makes of it:                                   *)
(*   [k |-> "invalid"]   json.JSONDecodeError (non-JSON, partial, blank)   *)
(*   [k |-> "scalar"]    a JSON value that is not an object                *)
(*   [k |-> "object", type, message]                                       *)
(* message is [k |-> "absent"], [k |-> "notmap"] (present, not a mapping)  *)
(* or [k |-> "map", role, content]; content is                             *)
(*   [k |-> "absent"]                                                      *)
(*   [k |-> "str", text]      a string, as a text                          *)
(*   [k |-> "list", blocks]   blocks: [k |-> "text", text] a mapping of    *)
(*                            type text, [k |-> "textbad"] one whose text  *)
(*                            is not a string, [k |-> "tool_use"] a        *)
(*                            mapping of another type, [k |-> "str", text] *)
(*                            a bare string                                *)
(*   [k |-> "other", truthy, repr]  any other JSON value and its str()     *)
(* An outcome is [raised, value]: an exception left the function, or it    *)
(* returned value (None or <<text>>).                                      *)
(***************************************************************************)
Returned(v) == [raised |-> FALSE, value |-> v]
Raised == [raised |-> TRUE, value |-> None]

\* the strings appended to text_parts, in order; <<"#TypeError">> marks a part that
\* is not a string, on which '\n'.join raises
RECURSIVE TextParts(_)
TextParts(blocks) ==
    IF blocks = <<>> THEN <<>>
    ELSE LET block == Head(blocks)
             rest == TextParts(Tail(blocks))
         IN  IF block.k = "text" THEN <<block.text>> \o rest
             ELSE IF block.k = "textbad" THEN <<"#TypeError">> \o rest
             ELSE IF block.k = "str" THEN <<block.text>> \o rest
             ELSE rest

\* '\n'.join(text_parts)
RECURSIVE JoinLines(_)
JoinLines(parts) ==
    IF parts = <<>> THEN ""
    ELSE IF Len(parts) = 1 THEN parts[1]
    ELSE parts[1] \o "\n" \o JoinLines(Tail(parts))

\* bool(content)
ContentTruthy(content) ==
    IF content.k = "absent" THEN FALSE
    ELSE IF content.k = "str" THEN Truthy(content.text)
    ELSE IF content.k = "list" THEN content.blocks # <<>>
    ELSE content.truthy

\* the body of `if content:`: the outcome of returning the normalised content
NormaliseContent(content) ==
    IF content.k = "list"
    THEN LET text_parts == TextParts(content.blocks)
         IN  IF \E i \in 1..Len(text_parts) : text_parts[i] = "#TypeError" THEN Raised
             ELSE IF JoinLines(text_parts) # ""
                  THEN Returned(Some(Text(JoinLines(text_parts), 0)))
             ELSE Returned(None)
    ELSE IF content.k = "str" THEN Returned(Some(content.text))
    ELSE Returned(Some(Text(content.repr, 0)))

\* Mutant of ScanFrom: a selected record whose content normalises to None is passed
\* over and the scan goes on to the earlier records.
RECURSIVE ScanFrom_fallback(_, _)
ScanFrom_fallback(lines, i) ==
    IF i = 0 THEN Returned(None)
    ELSE LET entry == lines[i]
         IN  IF entry.k = "invalid" THEN ScanFrom_fallback(lines, i - 1)
             ELSE IF entry.k = "scalar" THEN Raised
             ELSE IF entry.type # "assistant" THEN ScanFrom_fallback(lines, i - 1)
             ELSE IF entry.message.k = "notmap" THEN Raised
             ELSE IF entry.message.k = "absent" THEN ScanFrom_fallback(lines, i - 1)
             ELSE IF entry.message.role # "assistant" THEN ScanFrom_fallback(lines, i - 1)
             ELSE IF /\ ContentTruthy(entry.message.content)
                     /\ NormaliseContent(entry.message.content) # Returned(None)
                  THEN NormaliseContent(entry.message.content)
             ELSE ScanFrom_fallback(lines, i - 1)

\* `for line in reversed(lines)` from line i down, inside the outer try
RECURSIVE ScanFrom(_, _)
ScanFrom(lines, i) ==
    IF i = 0 THEN Returned(None)
    ELSE LET entry == lines[i]
         IN  IF entry.k = "invalid" THEN ScanFrom(lines, i - 1)
             ELSE IF entry.k = "scalar" THEN Raised
             ELSE IF entry.type # "assistant" THEN ScanFrom(lines, i - 1)
             ELSE IF entry.message.k = "notmap" THEN Raised
             ELSE IF entry.message.k = "absent" THEN ScanFrom(lines, i - 1)
             ELSE IF entry.message.role # "assistant" THEN ScanFrom(lines, i - 1)
             ELSE IF ContentTruthy(entry.message.content)
                  THEN NormaliseContent(entry.message.content)
             ELSE ScanFrom(lines, i - 1)

\* the outer try of get_last_assistant_response
ReadAndScan(transcript) ==
    IF ~transcript.readable THEN Raised ELSE ScanFrom(transcript.lines, Len(transcript.lines))

\* Mutant of get_last_assistant_response: no outer `except Exception`.
get_last_assistant_response_unguarded(transcript) == ReadAndScan(transcript)

get_last_assistant_response(transcript) ==
    IF ReadAndScan(transcript).raised THEN Returned(None) ELSE ReadAndScan(transcript)

(***************************************************************************)
(* SpecTranscript: the reader on generated transcripts.                    *)
(***************************************************************************)
Asst(content) ==
    [k |-> "object", type |-> "assistant",
     message |-> [k |-> "map", role |-> "assistant", content |-> content]]
StrContent(s) == [k |-> "str", text |-> Text(s, 0)]
ListContent(blocks) == [k |-> "list", blocks |-> blocks]

TranscriptLines ==
    {[k |-> "invalid"],
     [k |-> "scalar"],
     [k |-> "object", type |-> "user",
      message |-> [k |-> "map", role |-> "user", content |-> StrContent("please fix it")]],
     [k |-> "object", type |-> "user", message |-> [k |-> "notmap"]],
     [k |-> "object", type |-> "assistant", message |-> [k |-> "notmap"]],
     [k |-> "object", type |-> "assistant", message |-> [k |-> "absent"]],
     [k |-> "object", type |-> "assistant",
      message |-> [k |-> "map", role |-> "user", content |-> StrContent("echo")]],
     Asst(StrContent("first answer")),
     Asst(StrContent("second answer")),
     Asst(StrContent("")),
     Asst([k |-> "absent"]),
     Asst(ListContent(<<[k |-> "text", text |-> "part one"], [k |-> "tool_use"],
                        [k |-> "str", text |-> "part two"]>>)),
     Asst(ListContent(<<[k |-> "tool_use"]>>)),
     Asst(ListContent(<<[k |-> "textbad"]>>)),
     Asst(ListContent(<<>>)),
     Asst([k |-> "other", truthy |-> TRUE, repr |-> "42"]),
     Asst([k |-> "other", truthy |-> FALSE, repr |-> "0"])}

TranscriptInit ==
    /\ fn = ""
    /\ arg \in {[readable |-> r, lines |-> ls] :
                  r \in BOOLEAN, ls \in SeqsUpTo(TranscriptLines, MaxLines)}
    /\ res = None
    /\ HookInit
    /\ CacheInit

Transcript_get_last_assistant_response ==
    Apply("get_last_assistant_response", get_last_assistant_response(arg))

TranscriptNext == Transcript_get_last_assistant_response

SpecTranscript == TranscriptInit /\ [][TranscriptNext]_vars

\* The flattened text of a line that is a well-formed assistant event, "" otherwise.
EventText(line) ==
    IF line.k # "object" THEN ""
    ELSE IF line.type # "assistant" \/ line.message.k # "map" THEN ""
    ELSE IF line.message.role # "assistant" THEN ""
    ELSE LET content == line.message.content
         IN  IF content.k = "str" THEN content.text.s
             ELSE IF content.k = "other" THEN (IF content.truthy THEN content.repr ELSE "")
             ELSE IF content.k = "list"
                  THEN (IF \E i \in 1..Len(content.blocks) : content.blocks[i].k = "textbad"
                        THEN ""
                        ELSE JoinLines(TextParts(content.blocks)))
             ELSE ""

\* A malformed line: not JSON, JSON but no object, or an object whose message is no
\* mapping.
Malformed(line) ==
    \/ line.k \in {"invalid", "scalar"}
    \/ line.k = "object" /\ line.message.k = "notmap"

\* C9: for a transcript with no assistant event with non-empty text (a missing or
\* unreadable file, an empty file, only non-JSON or non-assistant lines)
\* get_last_assistant_response returns None and raises nothing.
C9_NoneNeverRaises ==
    (/\ fn = "get_last_assistant_response"
     /\ \/ ~arg.readable
        \/ \A i \in 1..Len(arg.lines) : EventText(arg.lines[i]) = "")
        => res = Returned(None)

\* C9 witness: a readable transcript holding a JSON value that is not an object, on
\* which the scan raises, read as None.
C9_Witness ==
    /\ fn = "get_last_assistant_response"
    /\ arg.readable
    /\ \E i \in 1..Len(arg.lines) : arg.lines[i].k = "scalar"
    /\ \A i \in 1..Len(arg.lines) : EventText(arg.lines[i]) = ""
    /\ res = Returned(None)

\* C10 as stated: when some line is a well-formed assistant event with non-empty text
\* and only malformed lines follow the last such line, the reader returns the
\* flattened text of that line.
C10_SkipsMalformed ==
    (/\ fn = "get_last_assistant_response"
     /\ arg.readable)
        => \A i \in 1..Len(arg.lines) :
              (/\ EventText(arg.lines[i]) # ""
               /\ \A j \in (i + 1)..Len(arg.lines) : Malformed(arg.lines[j]))
                  => res = Returned(Some(Text(EventText(arg.lines[i]), 0)))

(***************************************************************************)
(* Hook runs.  The input of a run is                                       *)
(*   [load, stdin, transcript, config]                                     *)
(* load: the sibling config-cache.py module loads at start-up;             *)
(* stdin: what json.load(sys.stdin) makes of standard input,               *)
(*   [k |-> "malformed"]   json.JSONDecodeError                            *)
(*   [k |-> "notobject"]   a JSON value that is not an object              *)
(*   [k |-> "object", response, notification, tool_calls, tool_name,       *)
(*    transcript_path]                                                     *)
(*   response and notification are [k |-> "absent"], [k |-> "notmap"] or   *)
(*   [k |-> "map", content] with content as in a transcript; tool_calls is *)
(*   the list of the calls' tool names; tool_name is [k |-> "absent"],     *)
(*   [k |-> "str", v] or [k |-> "other"] (a truthy value that is not a     *)
(*   string); transcript_path is TRUE when a path is given;                *)
(* transcript: the file at that path; config: the configuration file,      *)
(*   [k |-> "missing"], [k |-> "corrupt"] (not JSON), [k |-> "notmap"]     *)
(*   (JSON, not an object) or [k |-> "map", min] where min, the value of   *)
(*   minConfidence, is [k |-> "absent"], [k |-> "int", v] or [k |-> "str"] *)
(*   (a JSON string).                                                      *)
(* The outcome of a run is [out, exit, fault, pcts]; an item of out is a   *)
(* JSON decision object or a line of text, with the percentage it shows    *)
(* (-1 when it shows none).                                                *)
(***************************************************************************)
Json(decision, pct) == [k |-> "json", decision |-> decision, pct |-> pct]
Line(pct) == [k |-> "text", decision |-> "", pct |-> pct]

\* sys.exit(status) after main wrote o
Exited(o, status, used) == [out |-> o, exit |-> status, fault |-> "none", pcts |-> used]
\* `except Exception` of main: sys.exit(0) after writing o
Caught(o) == [out |-> o, exit |-> 0, fault |-> "caught", pcts |-> {}]
\* an exception outside every try: the interpreter prints a traceback to standard
\* error and the process ends with status 1
Uncaught == [out |-> <<>>, exit |-> 1, fault |-> "uncaught", pcts |-> {}]

IntVal(n) == [k |-> "int", v |-> n]

\* config-cache.py get_cached_config in a fresh process (the cache is empty): the
\* minConfidence of the configuration returned
get_cached_config(config) ==
    IF config.k # "map" THEN IntVal(50)
    ELSE IF config.min.k = "absent" THEN IntVal(50)
    ELSE config.min

\* confidence-validator.py main, lines 249-257: min_confidence
validator_min_confidence(config) ==
    IF config.k # "map" THEN IntVal(85)
    ELSE IF config.min.k = "absent" THEN IntVal(50)
    ELSE config.min

\* confidence-notification-hook.py get_config
notification_get_config(config) ==
    IF config.k # "map" THEN IntVal(50)
    ELSE IF config.min.k = "absent" THEN IntVal(50)
    ELSE config.min

\* the text parts the PostToolUse hooks take from a list content: mappings of type
\* text only
RECURSIVE DictTextParts(_)
DictTextParts(blocks) ==
    IF blocks = <<>> THEN <<>>
    ELSE LET block == Head(blocks)
             rest == DictTextParts(Tail(blocks))
         IN  IF block.k = "text" THEN <<block.text>> \o rest
             ELSE IF block.k = "textbad" THEN <<"#TypeError">> \o rest
             ELSE rest

\* response_content of confidence-scorer.py and confidence-unified-posttool.py, up to
\* the first use of its length: Raised when that use raises
response_content(response) ==
    IF response.k = "absent" THEN Returned(Some(Text("", 0)))
    ELSE IF response.k = "notmap" THEN Raised
    ELSE LET content == response.content
         IN  IF content.k = "absent" THEN Returned(Some(Text("", 0)))
             ELSE IF content.k = "str" THEN Returned(Some(content.text))
             ELSE IF content.k = "list"
                  THEN LET text_parts == DictTextParts(content.blocks)
                       IN  IF \E i \in 1..Len(text_parts) : text_parts[i] = "#TypeError"
                           THEN Raised
                           ELSE Returned(Some(Text(JoinLines(text_parts), 0)))
             ELSE Raised

\* re.search(r'confidence:\s*\d+%', text.lower())
has_confidence(t) == SearchAnyDigitsConfidence(Lower(t.s))

\* the trivial_patterns loop of confidence-score-display.py on response_lower.strip()
IsTrivial(t) ==
    LET x == IF t.pad = 0 THEN Strip(Lower(t.s)) ELSE LStrip(Lower(t.s))
    IN  \/ t.pad = 0 /\ x \in {"yes", "no", "yes.", "no.", "ok", "okay", "ok.", "okay.",
                                "thank", "thanks", "thank you", "thank.", "thanks.",
                                "thank you."}
        \/ \A i \in 1..Len(x) : ~IsLetter(SubSeq(x, i, i))

\* Mutant of scorer_risk_level: with a tool name, the response text and the tool calls
\* are classified along with it.
scorer_risk_level_with_response(content, tool_name, tool_calls) ==
    IF Strip(tool_name) # ""
    THEN analyze_operation_risk("Used tool: " \o tool_name \o "\n" \o content.s,
                                <<tool_name>> \o tool_calls)
    ELSE analyze_operation_risk(content.s, tool_calls)

\* confidence-scorer.py main, lines 142-151: the risk level of a run whose tool_name is
\* a string
scorer_risk_level(content, tool_name, tool_calls) ==
    IF Strip(tool_name) # ""
    THEN analyze_operation_risk("Used tool: " \o tool_name, <<tool_name>>)
    ELSE analyze_operation_risk(content.s, tool_calls)

\* the allow object of confidence-scorer.py, lines 174-180 and 189-195; request is
\* "requested" for the medium-risk wording of additionalContext, "optional" for the
\* low-risk one
Allow(request) ==
    [k |-> "json", decision |-> "allow", pct |-> -1,
     hookSpecificOutput |-> [hookEventName |-> "PostToolUse",
                             additionalContext |-> request]]

\* Mutant of scorer_decision: a medium risk is blocked like a high one.
scorer_decision_medium_blocks(risk_level) ==
    IF risk_level = "none" THEN Exited(<<>>, 0, {})
    ELSE IF risk_level \in {"high", "medium"} THEN Exited(<<Json("block", -1)>>, 1, {})
    ELSE Exited(<<Allow("optional")>>, 0, {})

\* confidence-scorer.py main, lines 153-197: the decision on the risk level
scorer_decision(risk_level) ==
    IF risk_level = "none" THEN Exited(<<>>, 0, {})
    ELSE IF risk_level = "high" THEN Exited(<<Json("block", -1)>>, 1, {})
    ELSE IF risk_level = "medium" THEN Exited(<<Allow("requested")>>, 0, {})
    ELSE Exited(<<Allow("optional")>>, 0, {})

\* confidence-scorer.py main
scorer_main(i) ==
    IF i.stdin.k # "object" THEN Caught(<<>>)
    ELSE IF response_content(i.stdin.response).raised THEN Caught(<<>>)
    ELSE IF i.stdin.tool_name.k = "other" THEN Caught(<<>>)
    ELSE LET content == response_content(i.stdin.response).value[1]
             tool_name == IF i.stdin.tool_name.k = "absent" THEN "" ELSE i.stdin.tool_name.v
             has_response_content == TStripLen(content) > 0
             has_direct_tool == Strip(tool_name) # ""
             risk_level == scorer_risk_level(content, tool_name, i.stdin.tool_calls)
         IN  IF ~has_response_content /\ ~has_direct_tool THEN Exited(<<>>, 0, {})
             ELSE IF has_response_content /\ has_confidence(content) THEN Exited(<<>>, 0, {})
             ELSE scorer_decision(risk_level)

\* Mutant of posttool_decision: a high risk is blocked whatever the estimate.
posttool_decision_any_estimate(risk_level, estimated_confidence, min_confidence, marker) ==
    IF risk_level = "high" THEN Exited(<<Json("block", -1)>>, 1, {estimated_confidence})
    ELSE Exited(<<Json("approve", estimated_confidence)>> \o marker, 0,
                {estimated_confidence})

\* Mutant of posttool_decision: a high risk is blocked when the estimate is at or
\* below the threshold.
posttool_decision_at_or_below(risk_level, estimated_confidence, min_confidence, marker) ==
    IF risk_level = "high" /\ min_confidence.k # "int" THEN Caught(<<>>)
    ELSE IF risk_level = "high" /\ estimated_confidence <= min_confidence.v
         THEN Exited(<<Json("block", -1)>>, 1, {estimated_confidence})
    ELSE Exited(<<Json("approve", estimated_confidence)>> \o marker, 0,
                {estimated_confidence})

\* lines 312-331 of the unified PostToolUse hooks: the decision on the estimate;
\* marker is what the hook prints after an approve object
posttool_decision(risk_level, estimated_confidence, min_confidence, marker) ==
    IF risk_level = "high" /\ min_confidence.k # "int" THEN Caught(<<>>)
    ELSE IF risk_level = "high" /\ estimated_confidence < min_confidence.v
         THEN Exited(<<Json("block", -1)>>, 1, {estimated_confidence})
    ELSE Exited(<<Json("approve", estimated_confidence)>> \o marker, 0,
                {estimated_confidence})

\* src/setup/confidence-unified-posttool.py: the module-level load and main
posttool_main(i) ==
    IF ~i.load THEN Uncaught
    ELSE IF i.stdin.k # "object" THEN Caught(<<>>)
    ELSE IF response_content(i.stdin.response).raised THEN Caught(<<>>)
    ELSE LET min_confidence == get_cached_config(i.config)
             content == response_content(i.stdin.response).value[1]
             tool_calls == i.stdin.tool_calls
         IN  IF TStripLen(content) = 0 THEN Exited(<<>>, 0, {})
             ELSE IF has_confidence(content) THEN Exited(<<>>, 0, {})
             ELSE posttool_decision(assess_risk_level(content.s, tool_calls),
                                    posttool_estimate_confidence(content, tool_calls),
                                    min_confidence, <<>>)

\* test-install/src/setup/confidence-unified-posttool.py main, lines 203-204: the
\* tool calls are the one tool_name, "#other" for a name that is not a string
ti_tool_calls(tool_name) ==
    IF tool_name.k = "absent" THEN <<>>
    ELSE IF tool_name.k = "other" THEN <<"#other">>
    ELSE IF tool_name.v = "" THEN <<>> ELSE <<tool_name.v>>

\* test-install/src/setup/confidence-unified-posttool.py: the module-level load and
\* main; the response is read from the transcript
posttool_ti_main(i) ==
    IF ~i.load THEN Uncaught
    ELSE IF i.stdin.k # "object" THEN Caught(<<>>)
    ELSE LET min_confidence == get_cached_config(i.config)
             tool_name == i.stdin.tool_name
             tool_calls == ti_tool_calls(tool_name)
             response ==
                 IF i.stdin.transcript_path
                 THEN get_last_assistant_response(i.transcript).value
                 ELSE None
             content == IF response = None THEN Text("", 0) ELSE response[1]
         IN  IF TStripLen(content) = 0 THEN Exited(<<>>, 0, {})
             ELSE IF has_confidence(content) THEN Exited(<<>>, 0, {})
             ELSE IF tool_name.k = "other" THEN Caught(<<>>)
             ELSE posttool_decision(assess_risk_level(content.s, tool_calls),
                                    posttool_estimate_confidence(content, tool_calls),
                                    min_confidence, <<Line(-1)>>)

\* confidence-validator.py main
validator_main(i) ==
    IF i.stdin.k # "object" THEN Caught(<<>>)
    ELSE IF ~i.stdin.transcript_path THEN Exited(<<>>, 0, {})
    ELSE IF get_last_assistant_response(i.transcript).value = None THEN Exited(<<>>, 0, {})
    ELSE LET response == get_last_assistant_response(i.transcript).value[1]
             confidence_pct == validator_confidence_pct(response)
             min_confidence == validator_min_confidence(i.config)
         IN  IF min_confidence.k # "int" THEN Caught(<<>>)
             ELSE IF confidence_pct < min_confidence.v
                  THEN Exited(<<Json("prompt_user", confidence_pct)>>, 0, {confidence_pct})
             ELSE Exited(<<Line(confidence_pct)>>, 0, {confidence_pct})

\* confidence-score-display.py main
display_main(i) ==
    IF i.stdin.k # "object" THEN Caught(<<>>)
    ELSE IF ~i.stdin.transcript_path THEN Exited(<<>>, 0, {})
    ELSE IF get_last_assistant_response(i.transcript).value = None THEN Exited(<<>>, 0, {})
    ELSE LET response == get_last_assistant_response(i.transcript).value[1]
             confidence_score == calculate_confidence_score(response).score
         IN  IF Contains(Lower(response.s), "confidence:") /\ Contains(response.s, "%")
             THEN Exited(<<>>, 0, {})
             ELSE IF IsTrivial(response) THEN Exited(<<>>, 0, {})
             ELSE IF TStripLen(response) < 20 THEN Exited(<<>>, 0, {})
             ELSE Exited(<<Line(confidence_score)>>, 0, {confidence_score})

\* test-install/src/setup/confidence-unified-prompt.py: the module-level load and main;
\* the first line of output is the marker, the handler's line is the fallback marker
prompt_main(i) ==
    IF ~i.load THEN Uncaught
    ELSE IF i.stdin.k # "object" THEN Caught(<<Line(-1), Line(-1)>>)
    ELSE IF ~i.stdin.transcript_path THEN Exited(<<Line(-1)>>, 0, {})
    ELSE IF get_last_assistant_response(i.transcript).value = None
         THEN Exited(<<Line(-1)>>, 0, {})
    ELSE LET response == get_last_assistant_response(i.transcript).value[1]
             min_confidence == get_cached_config(i.config)
             confidence_match == SearchConfidence(Lower(response.s))
             compared == IF confidence_match = None THEN {} ELSE {confidence_match[1]}
             confidence_score == calculate_confidence_score(response).score
         IN  IF confidence_match # None /\ min_confidence.k # "int"
             THEN Caught(<<Line(-1), Line(-1)>>)
             ELSE IF confidence_match # None /\ confidence_match[1] < min_confidence.v
                  THEN Exited(<<Line(-1), Json("prompt_user", confidence_match[1])>>, 1,
                              compared)
             ELSE IF TStripLen(response) < 3 THEN Exited(<<Line(-1)>>, 0, compared)
             ELSE Exited(<<Line(-1), Line(confidence_score)>>, 0,
                         compared \cup {confidence_score})

\* the text that extract_confidence_from_response and estimate_confidence of the
\* notification hook make of a truthy content
notification_text(content) ==
    IF content.k = "list"
    THEN LET text_parts == TextParts(content.blocks)
         IN  IF \E i \in 1..Len(text_parts) : text_parts[i] = "#TypeError" THEN Raised
             ELSE Returned(Some(Text(JoinLines(text_parts), 0)))
    ELSE IF content.k = "str" THEN Returned(Some(content.text))
    ELSE Returned(Some(Text(content.repr, 0)))

\* confidence-notification-hook.py should_show_warning and the end of main, on the
\* text of the content
should_show_warning(content, t, tool_calls, min_confidence) ==
    LET explicit_confidence == extract_confidence_from_response(t)
        estimated_confidence ==
            IF content.k = "list"
            THEN notification_clamp(notification_raw_score(t, tool_calls))
            ELSE notification_estimate_confidence(t, tool_calls)
    IN  IF min_confidence.k # "int" THEN Caught(<<>>)
        ELSE IF explicit_confidence # None
             THEN IF explicit_confidence[1] < min_confidence.v
                  THEN Exited(<<Json("prompt_user", explicit_confidence[1])>>, 0,
                              {explicit_confidence[1]})
                  ELSE Exited(<<>>, 0, {explicit_confidence[1]})
        ELSE IF estimated_confidence < min_confidence.v - 10
             THEN Exited(<<Json("prompt_user", estimated_confidence)>>, 0,
                         {estimated_confidence})
        ELSE Exited(<<>>, 0, {estimated_confidence})

\* confidence-notification-hook.py main; a content of kind other carries sized: it
\* has a length (a JSON object) or has none (a number, a boolean)
notification_main(i) ==
    IF i.stdin.k # "object" THEN Caught(<<>>)
    ELSE IF i.stdin.notification.k = "notmap" THEN Caught(<<>>)
    ELSE LET content ==
                 IF i.stdin.notification.k = "absent" THEN StrContent("")
                 ELSE IF i.stdin.notification.content.k = "absent" THEN StrContent("")
                 ELSE i.stdin.notification.content
         IN  IF ~ContentTruthy(content) THEN Exited(<<>>, 0, {})
             ELSE IF content.k = "other" /\ ~content.sized THEN Caught(<<>>)
             ELSE IF content.k = "str" /\ TStripLen(content.text) < 10
                  THEN Exited(<<>>, 0, {})
             ELSE IF notification_text(content).raised THEN Caught(<<>>)
             ELSE should_show_warning(content, notification_text(content).value[1],
                                      i.stdin.tool_calls,
                                      notification_get_config(i.config))

(***************************************************************************)
(* Spec: runs of the seven hooks.  The host starts a hook on an input and  *)
(* may start the same hook on the same input again; every run is a fresh   *)
(* process.                                                                *)
(***************************************************************************)
HookMessages ==
    {Text("", 0), Text("   ", 0), Text("ok.", 0),
     Text("Confidence: 73% all checks pass now", 0),
     Text("confidence: 20% delete the old file", 0),
     Text("Confidence: 250% it works", 0),
     Text("85% confident the bug is gone for good", 0),
     Text("confidence: high, 90% of the delete is done", 0),
     Text("delete the old build directory", 0),
     Text("maybe delete it, not sure", 0),
     Text("please update the settings file", 0),
     Text("I looked at the module and it is fine.", 0),
     Text("I successfully fixed the bug by editing the file.", 0),
     Text("successfully fixed the parser, all tests are working", PadMid)}

Contents ==
    {[k |-> "str", text |-> m] : m \in HookMessages}
    \cup {[k |-> "absent"],
          ListContent(<<[k |-> "text", text |-> "maybe delete it"], [k |-> "tool_use"],
                        [k |-> "str", text |-> "Confidence: 73%"]>>),
          ListContent(<<[k |-> "textbad"]>>),
          [k |-> "other", truthy |-> TRUE, repr |-> "42", sized |-> FALSE],
          [k |-> "other", truthy |-> TRUE, repr |-> "{'delete': 1}", sized |-> TRUE]}

Fields == {[k |-> "absent"], [k |-> "notmap"]} \cup {[k |-> "map", content |-> c] : c \in Contents}

ToolNameValues ==
    {[k |-> "absent"], [k |-> "str", v |-> "Read"], [k |-> "str", v |-> "Edit"],
     [k |-> "str", v |-> "WebFetch"], [k |-> "other"]}

ToolCallLists == {<<>>, <<"Read">>, <<"WebFetch", "Edit">>}

ConfigFiles ==
    {[k |-> "missing"], [k |-> "corrupt"], [k |-> "notmap"],
     [k |-> "map", min |-> [k |-> "absent"]],
     [k |-> "map", min |-> IntVal(90)],
     [k |-> "map", min |-> [k |-> "str"]]}

Transcripts ==
    {[readable |-> FALSE, lines |-> <<>>]}
    \cup {[readable |-> TRUE, lines |-> <<Asst(c)>>] :
            c \in {x \in Contents : x.k # "other" \/ ~x.sized}}
    \cup {[readable |-> TRUE, lines |-> <<Asst([k |-> "str", text |-> m]), l>>] :
            m \in {Text("Confidence: 73% all checks pass now", 0),
                   Text("maybe delete it, not sure", 0)},
            l \in {[k |-> "invalid"], [k |-> "scalar"]}}

NoFile == [readable |-> FALSE, lines |-> <<>>]

Stdin(response, notification, tool_calls, tool_name, transcript_path) ==
    [k |-> "object", response |-> response, notification |-> notification,
     tool_calls |-> tool_calls, tool_name |-> tool_name,
     transcript_path |-> transcript_path]

BadStdin == {[k |-> "malformed"], [k |-> "notobject"]}

Input(load, stdin, transcript, config) ==
    [load |-> load, stdin |-> stdin, transcript |-> transcript, config |-> config]

\* the inputs on which each hook is started: the fields its code reads vary, the
\* others are absent
ScorerInputs ==
    {Input(TRUE, s, NoFile, [k |-> "missing"]) :
       s \in BadStdin \cup {Stdin(r, [k |-> "absent"], tc, tn, FALSE) :
                              r \in Fields, tc \in ToolCallLists, tn \in ToolNameValues}}

PosttoolInputs ==
    {Input(l, s, NoFile, c) :
       l \in BOOLEAN, c \in ConfigFiles,
       s \in BadStdin \cup {Stdin(r, [k |-> "absent"], tc, [k |-> "absent"], FALSE) :
                              r \in Fields, tc \in ToolCallLists}}

TranscriptStdin ==
    BadStdin \cup {Stdin([k |-> "absent"], [k |-> "absent"], <<>>, [k |-> "absent"], p) :
                     p \in BOOLEAN}

PosttoolTiInputs ==
    {Input(l, s, t, c) :
       l \in BOOLEAN, c \in ConfigFiles, t \in Transcripts,
       s \in BadStdin \cup {Stdin([k |-> "absent"], [k |-> "absent"], <<>>, tn, p) :
                              tn \in ToolNameValues, p \in BOOLEAN}}

ValidatorInputs ==
    {Input(TRUE, s, t, c) : s \in TranscriptStdin, t \in Transcripts, c \in ConfigFiles}

DisplayInputs ==
    {Input(TRUE, s, t, c) : s \in TranscriptStdin, t \in Transcripts, c \in ConfigFiles}

PromptInputs ==
    {Input(l, s, t, c) :
       l \in BOOLEAN, s \in TranscriptStdin, t \in Transcripts, c \in ConfigFiles}

NotificationInputs ==
    {Input(TRUE, s, NoFile, c) :
       c \in ConfigFiles,
       s \in BadStdin \cup {Stdin([k |-> "absent"], n, tc, [k |-> "absent"], FALSE) :
                              n \in Fields, tc \in ToolCallLists}}

Init ==
    /\ PureInit
    /\ HookInit
    /\ CacheInit

\* The host may start the hook called name on input i: it is the first run, or one
\* more run of the same hook on the same input.
CanRun(name, i) ==
    /\ runs < MaxRuns
    /\ hook = "none" \/ (hook = name /\ inp = i)

\* One action per hook: a run of it, from start-up to exit.
confidence_scorer ==
    \E i \in ScorerInputs :
        /\ CanRun("confidence-scorer", i)
        /\ hook' = "confidence-scorer"
        /\ inp' = i
        /\ out' = scorer_main(i).out
        /\ exit' = scorer_main(i).exit
        /\ fault' = scorer_main(i).fault
        /\ pcts' = scorer_main(i).pcts
        /\ runs' = runs + 1
        /\ UNCHANGED <<pureVars, cacheVars>>

confidence_unified_posttool ==
    \E i \in PosttoolInputs :
        /\ CanRun("confidence-unified-posttool", i)
        /\ hook' = "confidence-unified-posttool"
        /\ inp' = i
        /\ out' = posttool_main(i).out
        /\ exit' = posttool_main(i).exit
        /\ fault' = posttool_main(i).fault
        /\ pcts' = posttool_main(i).pcts
        /\ runs' = runs + 1
        /\ UNCHANGED <<pureVars, cacheVars>>

confidence_unified_posttool_ti ==
    \E i \in PosttoolTiInputs :
        /\ CanRun("test-install/confidence-unified-posttool", i)
        /\ hook' = "test-install/confidence-unified-posttool"
        /\ inp' = i
        /\ out' = posttool_ti_main(i).out
        /\ exit' = posttool_ti_main(i).exit
        /\ fault' = posttool_ti_main(i).fault
        /\ pcts' = posttool_ti_main(i).pcts
        /\ runs' = runs + 1
        /\ UNCHANGED <<pureVars, cacheVars>>

confidence_validator ==
    \E i \in ValidatorInputs :
        /\ CanRun("confidence-validator", i)
        /\ hook' = "confidence-validator"
        /\ inp' = i
        /\ out' = validator_main(i).out
        /\ exit' = validator_main(i).exit
        /\ fault' = validator_main(i).fault
        /\ pcts' = validator_main(i).pcts
        /\ runs' = runs + 1
        /\ UNCHANGED <<pureVars, cacheVars>>

confidence_score_display ==
    \E i \in DisplayInputs :
        /\ CanRun("confidence-score-display", i)
        /\ hook' = "confidence-score-display"
        /\ inp' = i
        /\ out' = display_main(i).out
        /\ exit' = display_main(i).exit
        /\ fault' = display_main(i).fault
        /\ pcts' = display_main(i).pcts
        /\ runs' = runs + 1
        /\ UNCHANGED <<pureVars, cacheVars>>

confidence_unified_prompt ==
    \E i \in PromptInputs :
        /\ CanRun("confidence-unified-prompt", i)
        /\ hook' = "confidence-unified-prompt"
        /\ inp' = i
        /\ out' = prompt_main(i).out
        /\ exit' = prompt_main(i).exit
        /\ fault' = prompt_main(i).fault
        /\ pcts' = prompt_main(i).pcts
        /\ runs' = runs + 1
        /\ UNCHANGED <<pureVars, cacheVars>>

confidence_notification_hook ==
    \E i \in NotificationInputs :
        /\ CanRun("confidence-notification-hook", i)
        /\ hook' = "confidence-notification-hook"
        /\ inp' = i
        /\ out' = notification_main(i).out
        /\ exit' = notification_main(i).exit
        /\ fault' = notification_main(i).fault
        /\ pcts' = notification_main(i).pcts
        /\ runs' = runs + 1
        /\ UNCHANGED <<pureVars, cacheVars>>

Next ==
    \/ confidence_scorer
    \/ confidence_unified_posttool
    \/ confidence_unified_posttool_ti
    \/ confidence_validator
    \/ confidence_score_display
    \/ confidence_unified_prompt
    \/ confidence_notification_hook

Spec == Init /\ [][Next]_vars

(***************************************************************************)
(* Properties of hook runs.                                                *)
(***************************************************************************)
PostToolUseHooks ==
    {"confidence-scorer", "confidence-unified-posttool",
     "test-install/confidence-unified-posttool"}

\* The message hook h examines on input i, as <<text>>; None when the input yields
\* none (standard input is no object, a field has the wrong type, no transcript).
Message(h, i) ==
    IF i.stdin.k # "object" THEN None
    ELSE IF h \in {"confidence-scorer", "confidence-unified-posttool"}
         THEN response_content(i.stdin.response).value
    ELSE IF h = "confidence-notification-hook"
         THEN IF i.stdin.notification.k # "map" THEN None
              ELSE IF ~ContentTruthy(i.stdin.notification.content) THEN None
              ELSE notification_text(i.stdin.notification.content).value
    ELSE IF i.stdin.transcript_path THEN get_last_assistant_response(i.transcript).value
    ELSE None

\* the tool calls a PostToolUse hook h passes to its classifier and estimator
ToolCalls(h, i) ==
    IF h = "test-install/confidence-unified-posttool" THEN ti_tool_calls(i.stdin.tool_name)
    ELSE i.stdin.tool_calls

\* The risk PostToolUse hook h classifies for message m of input i; "unknown" when
\* the tool name is no string.
ClassifiedRisk(h, i, m) ==
    IF h = "confidence-scorer"
    THEN IF i.stdin.tool_name.k = "other" THEN "unknown"
         ELSE scorer_risk_level(m, IF i.stdin.tool_name.k = "absent" THEN ""
                                   ELSE i.stdin.tool_name.v, i.stdin.tool_calls)
    ELSE IF i.stdin.tool_name.k = "other" THEN "unknown"
    ELSE assess_risk_level(m.s, ToolCalls(h, i))

\* m states a confidence below the threshold min
Below(m, min) ==
    /\ SearchConfidence(Lower(m.s)) # None
    /\ min.k = "int"
    /\ SearchConfidence(Lower(m.s))[1] < min.v

Blocked == out = <<Json("block", -1)>> /\ exit = 1

\* C1 as stated: in a PostToolUse hook, when the classified risk is high and the
\* message carries no explicit confidence statement or states a confidence below
\* minConfidence, the hook writes a block decision and exits with status 1.  Stated
\* for the runs that started up and examine a non-blank message.
C1_HighRiskBlocks ==
    (/\ runs > 0
     /\ hook \in PostToolUseHooks
     /\ inp.load
     /\ Message(hook, inp) # None)
        => LET m == Message(hook, inp)[1]
           IN  (/\ TStripLen(m) > 0
                /\ ClassifiedRisk(hook, inp, m) = "high"
                /\ ~has_confidence(m) \/ Below(m, get_cached_config(inp.config)))
                   => Blocked

\* C1: confidence-scorer blocks (block decision, exit 1) exactly when it reaches its
\* classifier on a message without an explicit confidence statement and the risk is
\* high; a unified PostToolUse hook whose start-up succeeded blocks exactly when the
\* message is non-blank and without an explicit statement, the risk is high and the
\* estimated confidence is below an integer minConfidence.  Exit status 1 without a
\* block happens only when the start-up load failed.
C1_BlocksExactly ==
    (runs > 0 /\ hook \in PostToolUseHooks)
        => /\ hook = "confidence-scorer" =>
                (Blocked <=>
                    /\ Message(hook, inp) # None
                    /\ ~has_confidence(Message(hook, inp)[1])
                    /\ ClassifiedRisk(hook, inp, Message(hook, inp)[1]) = "high"
                    /\ \/ TStripLen(Message(hook, inp)[1]) > 0
                       \/ inp.stdin.tool_name.k = "str")
           /\ hook # "confidence-scorer" =>
                (Blocked <=>
                    /\ inp.load
                    /\ Message(hook, inp) # None
                    /\ TStripLen(Message(hook, inp)[1]) > 0
                    /\ ~has_confidence(Message(hook, inp)[1])
                    /\ ClassifiedRisk(hook, inp, Message(hook, inp)[1]) = "high"
                    /\ get_cached_config(inp.config).k = "int"
                    /\ posttool_estimate_confidence(Message(hook, inp)[1],
                                                    ToolCalls(hook, inp))
                          < get_cached_config(inp.config).v)
           /\ exit = 1 => Blocked \/ ~inp.load

\* C1 witness: the unified PostToolUse hook blocked a high-risk message without a
\* confidence statement whose estimate, 35, is below the default threshold 50.
C1_Witness ==
    /\ hook = "confidence-unified-posttool"
    /\ runs > 0
    /\ Message(hook, inp) = Some(Text("maybe delete it, not sure", 0))
    /\ inp.config.k = "missing"
    /\ pcts = {35}
    /\ Blocked

NoBlock == \A n \in 1..Len(out) : out[n].decision # "block"

\* C2 as stated: a fault raised anywhere in a run (malformed standard input, a field
\* of the wrong type, an unreadable transcript or configuration, a failure to load
\* config-cache at start-up) ends in exit status 0 without a block decision; no run
\* ends with an uncaught fault or with a non-zero status caused by its own failure.
C2_FailsOpen ==
    runs > 0 =>
        /\ fault # "uncaught"
        /\ fault # "none" => exit = 0 /\ NoBlock

\* C3 as stated: a run writes at most one JSON decision object, and it exits with
\* status 1 if and only if that object is a block decision; a run that writes
\* allow, approve, prompt_user or nothing exits with status 0.  Stated for the runs
\* that started up.
C3_ExitOneIffBlock ==
    (runs > 0 /\ inp.load) =>
        /\ Cardinality({n \in 1..Len(out) : out[n].k = "json"}) <= 1
        /\ exit \in {0, 1}
        /\ exit = 1 <=> ~NoBlock

\* C4 as stated: when the last assistant message holds an explicit confidence
\* statement (confidence: NN%), every hook writes no output and exits 0, on the first
\* run and on every repeated run with the same input.  Stated for the runs that
\* started up.
C4_StatedIsSilent ==
    (/\ runs > 0
     /\ inp.load
     /\ Message(hook, inp) # None)
        => (SearchConfidence(Lower(Message(hook, inp)[1].s)) # None
               => out = <<>> /\ exit = 0)

\* C7 as stated: every confidence percentage a hook compares with the threshold or
\* displays, explicit or estimated, is an integer from 0 to 100.
C7_PercentRange ==
    /\ \A p \in pcts : p \in 0..100
    /\ \A n \in 1..Len(out) : out[n].pct \in -1..100

(***************************************************************************)
(* SpecCache: config-cache.py in one long-lived process.  The process      *)
(* calls get_cached_config and invalidate_cache, the clock advances and    *)
(* the configuration file is rewritten on disk between the calls.          *)
(*                                                                         *)
(* A configuration file is one of the three failures that the handlers of  *)
(* get_cached_config tell apart, [k |-> "missing"] (FileNotFoundError),    *)
(* [k |-> "corrupt"] (empty or not JSON: JSONDecodeError),                 *)
(* [k |-> "unreadable"] (any other exception: open is refused, or the JSON *)
(* value is no object and the key loop raises TypeError), or               *)
(* [k |-> "map", minConfidence, verbose, lastUpdated] with each field      *)
(* [k |-> "absent"] or a JSON value.                                       *)
(***************************************************************************)
ttl == 30

BoolVal(b) == [k |-> "bool", b |-> b]
StrVal(x) == [k |-> "str", s |-> x]
Absent == [k |-> "absent"]

ConfigMap(minConfidence, verbose, lastUpdated) ==
    [k |-> "map", minConfidence |-> minConfidence, verbose |-> verbose,
     lastUpdated |-> lastUpdated]

\* get_cached_config, lines 41-45; lastUpdated is the time of the call
default_config(current_time) ==
    ConfigMap(IntVal(50), BoolVal(TRUE), [k |-> "time", t |-> current_time])

\* get_cached_config, lines 47-80: the configuration a read of the file yields
read_config(file, current_time) ==
    IF file.k \in {"missing", "corrupt", "unreadable"} THEN default_config(current_time)
    ELSE ConfigMap(IF file.minConfidence = Absent
                   THEN default_config(current_time).minConfidence
                   ELSE file.minConfidence,
                   IF file.verbose = Absent
                   THEN default_config(current_time).verbose
                   ELSE file.verbose,
                   IF file.lastUpdated = Absent
                   THEN default_config(current_time).lastUpdated
                   ELSE file.lastUpdated)

\* Mutant of cache_is_valid: the cache is never used.
cache_is_valid_never(cache, current_time) == FALSE

\* Mutant of cache_is_valid: a cache exactly ttl seconds old is still used.
cache_is_valid_through_ttl(cache, current_time) ==
    /\ cache.data # None
    /\ current_time - cache.timestamp <= ttl

\* get_cached_config, lines 35-36
cache_is_valid(cache, current_time) ==
    /\ cache.data # None
    /\ current_time - cache.timestamp < ttl

\* Mutant of cache_after_load: a failed read leaves the timestamp at 0.
cache_after_load_failure_unstamped(file, current_time) ==
    [data |-> Some(read_config(file, current_time)),
     timestamp |-> IF file.k \in {"missing", "corrupt", "unreadable"} THEN 0
                   ELSE current_time]

\* get_cached_config, lines 58-59, 66-67, 72-73, 78-79: _config_cache after the read
cache_after_load(file, current_time) ==
    [data |-> Some(read_config(file, current_time)), timestamp |-> current_time]

\* Mutant of invalidated_cache: invalidate_cache changes nothing.
invalidated_cache_unchanged == config_cache

\* invalidate_cache, lines 85-86
invalidated_cache == [data |-> None, timestamp |-> 0]

CacheFiles ==
    {[k |-> "missing"], [k |-> "corrupt"], [k |-> "unreadable"],
     ConfigMap(IntVal(90), Absent, Absent),
     ConfigMap(IntVal(250), StrVal("yes"), StrVal("2025-01-01"))}

ClockSteps == {15}

CacheSpecInit ==
    /\ PureInit
    /\ HookInit
    /\ config_cache = [data |-> None, timestamp |-> 0]
    /\ now = Epoch
    /\ config_file \in CacheFiles
    /\ calls = <<>>

\* the record of a call: what it returned, whether it read the file, and the file
\* as it was then
Call(op, read, value, file) ==
    [op |-> op, at |-> now, read |-> read, value |-> value, file |-> file]

Cache_get_cached_config ==
    /\ Len(calls) < MaxCalls
    /\ config_cache' = IF cache_is_valid(config_cache, now) THEN config_cache
                       ELSE cache_after_load(config_file, now)
    /\ calls' = Append(calls, Call("get_cached_config", ~cache_is_valid(config_cache, now),
                                   config_cache'.data, Some(config_file)))
    /\ UNCHANGED <<now, config_file, pureVars, hookVars>>

Cache_invalidate_cache ==
    /\ Len(calls) < MaxCalls
    /\ config_cache' = invalidated_cache
    /\ calls' = Append(calls, Call("invalidate_cache", FALSE, None, None))
    /\ UNCHANGED <<now, config_file, pureVars, hookVars>>

\* time passes
Cache_tick ==
    \E d \in ClockSteps :
        /\ now + d <= Epoch + MaxClock
        /\ now' = now + d
        /\ UNCHANGED <<config_cache, config_file, calls, pureVars, hookVars>>

\* the user or the clauded command line rewrites, removes or damages the file
Cache_write_config_file ==
    \E f \in CacheFiles :
        /\ f # config_file
        /\ config_file' = f
        /\ UNCHANGED <<config_cache, now, calls, pureVars, hookVars>>

CacheNext ==
    \/ Cache_get_cached_config
    \/ Cache_invalidate_cache
    \/ Cache_tick
    \/ Cache_write_config_file

SpecCache == CacheSpecInit /\ [][CacheNext]_vars

(***************************************************************************)
(* Properties of the configuration in effect.                              *)
(***************************************************************************)
BadConfigFiles == {"missing", "corrupt", "notmap"}

\* C11 as stated: when the configuration file is missing, empty, unparseable or not a
\* JSON object, a hook does not fail and the threshold in effect is 50: it prompts the
\* user or blocks only for a percentage below 50.  Stated for the runs that started up.
C11_DefaultsOnBadConfig ==
    (/\ runs > 0
     /\ inp.load
     /\ inp.config.k \in BadConfigFiles)
        => /\ fault # "uncaught"
           /\ exit = 0 \/ Blocked
           /\ \A n \in 1..Len(out) :
                out[n].decision = "prompt_user" => out[n].pct < 50
           /\ Blocked => \A p \in pcts : p < 50

(***************************************************************************)
(* Properties of the configuration cache.                                  *)
(***************************************************************************)
\* calls j..k are all get_cached_config: no invalidate_cache from j to k
OnlyGets(j, k) == \A m \in j..k : calls[m].op = "get_cached_config"

\* C12 as stated: two get_cached_config calls less than 30 seconds apart with no
\* invalidate_cache between them return the same configuration, and the second does
\* not read the configuration file.
C12_CallsWithinTtl ==
    \A j, k \in 1..Len(calls) :
        (j < k /\ OnlyGets(j, k) /\ calls[k].at - calls[j].at < ttl)
            => /\ calls[k].value = calls[j].value
               /\ ~calls[k].read

\* C12: the age of the cache runs from the call that read the file.  A
\* get_cached_config call made less than 30 seconds after a call that read the file,
\* with no invalidate_cache between them, reads nothing and returns the configuration
\* that call returned, even if the file changed; the first call made 30 seconds or
\* more after that read does read the file, however recent the call before it.
C12_WithinTtlOfRead ==
    \A j, k \in 1..Len(calls) :
        (j < k /\ OnlyGets(j, k) /\ calls[j].read)
            => /\ calls[k].at - calls[j].at < ttl
                    => ~calls[k].read /\ calls[k].value = calls[j].value
               /\ (/\ calls[k].at - calls[j].at >= ttl
                   /\ \A m \in (j + 1)..(k - 1) : ~calls[m].read)
                    => calls[k].read

\* C12 witness: a call served from the cache, later than the read and after the file
\* was changed on disk.
C12_Witness ==
    \E j, k \in 1..Len(calls) :
        /\ j < k
        /\ OnlyGets(j, k)
        /\ calls[j].read
        /\ ~calls[k].read
        /\ calls[k].at > calls[j].at
        /\ calls[k].file # calls[j].file
        /\ calls[k].value = calls[j].value

FailingFiles == {"missing", "corrupt", "unreadable"}

\* C13: with no invalidate_cache between them, two reads of the configuration file
\* are at least 30 seconds apart, whether the reads succeed or fail: the file is read
\* at most once in any 30-second window.
C13_ReadOncePerTtl ==
    \A j, k \in 1..Len(calls) :
        (j < k /\ OnlyGets(j, k) /\ calls[j].read /\ calls[k].read)
            => calls[k].at - calls[j].at >= ttl

\* C13 witness: three calls on a file whose every read fails; the first reads it,
\* the second is served the stored defaults, the third reads it again 30 seconds
\* after the first.
C13_Witness ==
    /\ Len(calls) = 3
    /\ OnlyGets(1, 3)
    /\ \A m \in 1..3 : calls[m].file[1].k \in FailingFiles
    /\ calls[1].read
    /\ ~calls[2].read
    /\ calls[2].at > calls[1].at
    /\ calls[2].value = Some(default_config(calls[1].at))
    /\ calls[3].read
    /\ calls[3].at = calls[1].at + ttl

ConfigKeys == {"minConfidence", "verbose", "lastUpdated"}

\* configuration v is what file holds at time t: the file's own fields, with the
\* defaults for the fields it lacks, or the defaults when the file cannot be loaded
HoldsContents(v, file, t) ==
    IF file.k \in FailingFiles THEN v = default_config(t)
    ELSE /\ v.k = "map"
         /\ \A key \in ConfigKeys :
              v[key] = IF file[key] = Absent THEN default_config(t)[key] ELSE file[key]

\* C14: the get_cached_config call that follows an invalidate_cache reads the
\* configuration file, however recently the cache was loaded, and returns the file's
\* current contents, or the defaults when the read fails.
C14_InvalidateForcesRead ==
    \A k \in 1..(Len(calls) - 1) :
        (calls[k].op = "invalidate_cache" /\ calls[k + 1].op = "get_cached_config")
            => /\ calls[k + 1].read
               /\ HoldsContents(calls[k + 1].value[1], calls[k + 1].file[1],
                                calls[k + 1].at)

\* C14 witness: the cache was loaded, the file was rewritten and the cache
\* invalidated at once; the next call, at the same second, read the new file.
C14_Witness ==
    /\ Len(calls) = 3
    /\ calls[1].op = "get_cached_config" /\ calls[1].read
    /\ calls[2].op = "invalidate_cache"
    /\ calls[3].op = "get_cached_config" /\ calls[3].read
    /\ calls[3].at = calls[1].at
    /\ calls[3].file # calls[1].file
    /\ calls[3].value # calls[1].value
    /\ calls[3].file[1].k = "map"

(***************************************************************************)
(* Properties of the threshold gate.                                       *)
(***************************************************************************)
GatingHooks ==
    {"confidence-notification-hook", "confidence-validator", "confidence-unified-prompt"}

\* the threshold hook h takes from the configuration file
Threshold(h, config) ==
    IF h = "confidence-validator" THEN validator_min_confidence(config)
    ELSE IF h = "confidence-notification-hook" THEN notification_get_config(config)
    ELSE get_cached_config(config)

\* the explicit confidence hook h finds in message m, None when it finds none
ExplicitConfidence(h, m) ==
    IF h = "confidence-notification-hook" THEN extract_confidence_from_response(m)
    ELSE SearchConfidence(Lower(m.s))

\* the confidence hook h estimates for message m of input i
EstimatedConfidence(h, i, m) ==
    IF h = "confidence-notification-hook"
    THEN notification_estimate_confidence(m, i.stdin.tool_calls)
    ELSE IF h = "confidence-validator" THEN validator_estimate_confidence(m)
    ELSE display_clamp(display_raw_score(m))

Prompted == \E n \in 1..Len(out) : out[n].decision = "prompt_user"

\* C15 as stated: a hook that gates on the threshold writes a prompt_user decision
\* exactly when the message states a confidence below minConfidence or, when it
\* states none, the estimated confidence is below minConfidence minus 10.  Stated for
\* the runs that started up on a message of 20 characters or more and an integer
\* minConfidence.
C15_PromptExactly ==
    (/\ runs > 0
     /\ hook \in GatingHooks
     /\ inp.load
     /\ Message(hook, inp) # None
     /\ Threshold(hook, inp.config).k = "int")
        => LET m == Message(hook, inp)[1]
               min_confidence == Threshold(hook, inp.config).v
               explicit == ExplicitConfidence(hook, m)
           IN  TStripLen(m) >= 20
                 => (Prompted <=>
                        IF explicit # None THEN explicit[1] < min_confidence
                        ELSE EstimatedConfidence(hook, inp, m) < min_confidence - 10)

(***************************************************************************)
(* Properties of the risk decision.                                        *)
(***************************************************************************)
\* confidence-scorer classified the risk of message m of input i: it did not leave
\* at lines 130-132 (blank message and no tool name) nor at lines 136-140 (the
\* message states a confidence)
ScorerClassified(i, m) ==
    /\ i.stdin.tool_name.k # "other"
    /\ \/ TStripLen(m) > 0
       \/ i.stdin.tool_name.k = "str" /\ Strip(i.stdin.tool_name.v) # ""
    /\ ~(TStripLen(m) > 0 /\ has_confidence(m))

\* C16: when confidence-scorer classifies the risk as medium or low on a message
\* without an explicit confidence statement, it writes exactly one object
\* {"decision": "allow", "hookSpecificOutput": {hookEventName, additionalContext}},
\* with the requesting wording for medium and the optional one for low, and exits
\* 0; it never blocks.
C16_MediumLowAllows ==
    (/\ runs > 0
     /\ hook = "confidence-scorer"
     /\ Message(hook, inp) # None)
        => LET m == Message(hook, inp)[1]
               risk_level == ClassifiedRisk(hook, inp, m)
           IN  (ScorerClassified(inp, m) /\ risk_level \in {"medium", "low"})
                  => /\ out = <<Allow(IF risk_level = "medium" THEN "requested"
                                      ELSE "optional")>>
                     /\ exit = 0
                     /\ ~Blocked

\* C16 witness: the scorer allowed a medium-risk message with the request for a
\* confidence statement.
C16_Witness ==
    /\ runs > 0
    /\ hook = "confidence-scorer"
    /\ Message(hook, inp) # None
    /\ ScorerClassified(inp, Message(hook, inp)[1])
    /\ ClassifiedRisk(hook, inp, Message(hook, inp)[1]) = "medium"
    /\ out = <<Allow("requested")>>
    /\ exit = 0

\* text s holds no word of the HIGH, MEDIUM or LOW vocabulary of either classifier
\* and no suggestion-style word
NoRiskSignals(s) ==
    ~AnyIn(Lower(s), high_risk_tools \cup medium_risk_tools \cup low_risk_tools
                       \cup suggestion_keywords \cup high_risk_keywords
                       \cup medium_risk_keywords)

NoToolInvocations(i) == i.stdin.tool_calls = <<>> /\ i.stdin.tool_name.k = "absent"

\* C17 as stated: when the message holds no HIGH, MEDIUM or LOW vocabulary and no
\* suggestion-style word and there are no tool invocations, a PostToolUse hook
\* classifies the risk as none, writes no output and exits 0.  Stated for the runs
\* that started up on a message that is not blank.
C17_NoSignalsSilent ==
    (/\ runs > 0
     /\ hook \in PostToolUseHooks
     /\ inp.load
     /\ Message(hook, inp) # None)
        => LET m == Message(hook, inp)[1]
           IN  (TStripLen(m) > 0 /\ NoRiskSignals(m.s) /\ NoToolInvocations(inp))
                  => /\ ClassifiedRisk(hook, inp, m) = "none"
                     /\ out = <<>>
                     /\ exit = 0

(***************************************************************************)
(* Properties of the hooks that read the transcript.                       *)
(***************************************************************************)
TranscriptHooks ==
    {"confidence-score-display", "confidence-unified-prompt", "confidence-validator"}

\* C18 as stated: for a last assistant message that is trivial ("ok.", "yes",
\* "thanks") or shorter than 20 characters once stripped, every hook that reads the
\* transcript at Stop or UserPromptSubmit time writes nothing and exits 0.  Stated
\* for the runs that started up.
C18_TrivialIsSilent ==
    (/\ runs > 0
     /\ hook \in TranscriptHooks
     /\ inp.load
     /\ Message(hook, inp) # None)
        => LET m == Message(hook, inp)[1]
           IN  (IsTrivial(m) \/ TStripLen(m) < 20) => out = <<>> /\ exit = 0

\* C19 as stated: every configuration that get_cached_config returns has
\* minConfidence an integer from 0 to 100 and verbose a boolean; a field that the
\* file lacks or that holds an invalid value is replaced by its default.
C19_ValidConfig ==
    \A n \in 1..Len(calls) :
        calls[n].op = "get_cached_config"
            => LET config == calls[n].value[1]
               IN  /\ config.minConfidence.k = "int"
                   /\ config.minConfidence.v \in 0..100
                   /\ config.verbose.k = "bool"

EditTools == {"Edit", "Write", "MultiEdit"}

\* the tools invoked in the turn, as PostToolUse hook h is told of them: the
\* tool_name of standard input, or else its tool_calls
InvokedTools(h, i) ==
    IF i.stdin.tool_name.k = "str" THEN {i.stdin.tool_name.v}
    ELSE {i.stdin.tool_calls[n] : n \in 1..Len(i.stdin.tool_calls)}

\* PostToolUse hook h classifies the risk of message m of input i: it does not leave
\* before its classifier
Classifies(h, i, m) ==
    IF h = "confidence-scorer" THEN ScorerClassified(i, m)
    ELSE /\ i.stdin.tool_name.k # "other"
         /\ TStripLen(m) > 0
         /\ ~has_confidence(m)

\* C20 as stated: when a tool invoked in the turn is a file-edit tool (Edit, Write,
\* MultiEdit), the risk level a PostToolUse hook uses is high, whatever the message
\* says.  Stated for the runs that started up and reach the classifier.
C20_EditToolIsHigh ==
    (/\ runs > 0
     /\ hook \in PostToolUseHooks
     /\ inp.load
     /\ Message(hook, inp) # None)
        => LET m == Message(hook, inp)[1]
           IN  (/\ Classifies(hook, inp, m)
                /\ InvokedTools(hook, inp) \cap EditTools # {})
                  => ClassifiedRisk(hook, inp, m) = "high"

(***************************************************************************)
(* Properties of the unified PostToolUse decision.                         *)
(***************************************************************************)
UnifiedPosttoolHooks ==
    {"confidence-unified-posttool", "test-install/confidence-unified-posttool"}

\* C21: in confidence-unified-posttool, a run that reaches its decision on a
\* non-blank message without an explicit confidence statement writes a block
\* decision and exits 1 exactly when the risk is high and the estimated confidence
\* is strictly below minConfidence; in every other case its one decision object is
\* an approve object that shows the estimate, and it exits 0.
C21_BlockIffHighAndBelow ==
    (/\ runs > 0
     /\ hook \in UnifiedPosttoolHooks
     /\ fault = "none"
     /\ Message(hook, inp) # None)
        => LET m == Message(hook, inp)[1]
               risk_level == ClassifiedRisk(hook, inp, m)
               estimated_confidence ==
                   posttool_estimate_confidence(m, ToolCalls(hook, inp))
               min_confidence == get_cached_config(inp.config)
           IN  (TStripLen(m) > 0 /\ ~has_confidence(m))
                  => IF /\ risk_level = "high"
                        /\ min_confidence.k = "int"
                        /\ estimated_confidence < min_confidence.v
                     THEN out = <<Json("block", -1)>> /\ exit = 1
                     ELSE /\ Len(out) >= 1
                          /\ out[1] = Json("approve", estimated_confidence)
                          /\ \A n \in 2..Len(out) : out[n].k = "text"
                          /\ exit = 0

\* C21 witness: a high-risk message whose estimate equals the threshold, 50, was
\* approved.
C21_Witness ==
    /\ runs > 0
    /\ hook = "confidence-unified-posttool"
    /\ fault = "none"
    /\ Message(hook, inp) = Some(Text("delete the old build directory", 0))
    /\ ClassifiedRisk(hook, inp, Message(hook, inp)[1]) = "high"
    /\ get_cached_config(inp.config) = IntVal(50)
    /\ pcts = {50}
    /\ out = <<Json("approve", 50)>>
    /\ exit = 0

(***************************************************************************)
(* Further properties of the risk classifiers.                             *)
(***************************************************************************)
\* C22 as stated: whenever more than 3 tool calls are supplied, the classified risk
\* is at least medium, even if no HIGH or MEDIUM vocabulary appears in the text or
\* in the tool names.
C22_ManyToolsAtLeastMedium ==
    (fn \in {"analyze_operation_risk", "assess_risk_level"} /\ Len(arg.tools) > 3)
        => res \in {"medium", "high"}

(***************************************************************************)
(* Further properties of the transcript reader.                            *)
(***************************************************************************)
\* An assistant record with non-empty content: the record the backward scan selects.
SelectedRecord(line) ==
    /\ line.k = "object"
    /\ line.type = "assistant"
    /\ line.message.k = "map"
    /\ line.message.role = "assistant"
    /\ ContentTruthy(line.message.content)

\* C23: when the last assistant record with non-empty content holds a block list that
\* yields no text, get_last_assistant_response returns None, also when an earlier
\* assistant record has text.
C23_StopsAtFirstNonEmpty ==
    (/\ fn = "get_last_assistant_response"
     /\ arg.readable)
        => \A i \in 1..Len(arg.lines) :
              (/\ SelectedRecord(arg.lines[i])
               /\ arg.lines[i].message.content.k = "list"
               /\ EventText(arg.lines[i]) = ""
               /\ \A j \in (i + 1)..Len(arg.lines) : ~SelectedRecord(arg.lines[j]))
                  => res = Returned(None)

\* C23 witness: an assistant record with text followed by one holding only a tool-use
\* block was read as None.
C23_Witness ==
    /\ fn = "get_last_assistant_response"
    /\ arg.readable
    /\ arg.lines = <<Asst(StrContent("first answer")), Asst(ListContent(<<[k |-> "tool_use"]>>))>>
    /\ res = Returned(None)

(***************************************************************************)
(* Further properties of the configuration cache.                          *)
(***************************************************************************)
\* C24: a get_cached_config call made 30 seconds or more after the last read of the
\* configuration file (the boundary included) reads the file again and returns its
\* current contents, or the defaults when the read fails.
C24_StaleCacheIsReloaded ==
    \A j, k \in 1..Len(calls) :
        (/\ j < k
         /\ calls[j].read
         /\ calls[k].op = "get_cached_config"
         /\ \A m \in (j + 1)..(k - 1) : ~calls[m].read
         /\ calls[k].at - calls[j].at >= ttl)
            => /\ calls[k].read
               /\ HoldsContents(calls[k].value[1], calls[k].file[1], calls[k].at)

\* C24 witness: the file was read, rewritten, served from the cache 15 seconds later
\* and read again exactly 30 seconds after the first read, with the new contents.
C24_Witness ==
    /\ Len(calls) = 3
    /\ OnlyGets(1, 3)
    /\ calls[1].read
    /\ ~calls[2].read
    /\ calls[2].file # calls[1].file
    /\ calls[2].value = calls[1].value
    /\ calls[3].read
    /\ calls[3].at = calls[1].at + ttl
    /\ calls[3].file = calls[2].file
    /\ calls[3].file[1].k = "map"
    /\ calls[3].value # calls[1].value

(***************************************************************************)
(* SpecFrame: the files the hooks and the configuration provider work on.  *)
(* arg is the transcript on disk and config_file the configuration file;   *)
(* hooks run as fresh processes on them, and one long-lived process calls  *)
(* the operations of config-cache.py.  Nothing else touches the files.     *)
(***************************************************************************)
\* Mutant of opened_for_reading: the file is opened for writing and left empty.
opened_and_truncated(file) ==
    IF "lines" \in DOMAIN file THEN [readable |-> TRUE, lines |-> <<>>]
    ELSE [k |-> "corrupt"]

\* `with open(path, 'r') as f`: the file on disk after it was opened and read
opened_for_reading(file) == file

\* the configuration file as the hooks' own readers see it
HookView(file) ==
    IF file.k \in {"missing", "corrupt"} THEN [k |-> file.k]
    ELSE IF file.k = "unreadable" THEN [k |-> "notmap"]
    ELSE [k |-> "map",
          min |-> IF file.minConfidence = Absent THEN [k |-> "absent"]
                  ELSE IF file.minConfidence.k = "int" THEN file.minConfidence
                  ELSE [k |-> "str"]]

Hooks ==
    {"confidence-scorer", "confidence-unified-posttool",
     "test-install/confidence-unified-posttool", "confidence-validator",
     "confidence-score-display", "confidence-unified-prompt",
     "confidence-notification-hook"}

InputsOf(h) ==
    CASE h = "confidence-scorer" -> ScorerInputs
      [] h = "confidence-unified-posttool" -> PosttoolInputs
      [] h = "test-install/confidence-unified-posttool" -> PosttoolTiInputs
      [] h = "confidence-validator" -> ValidatorInputs
      [] h = "confidence-score-display" -> DisplayInputs
      [] h = "confidence-unified-prompt" -> PromptInputs
      [] h = "confidence-notification-hook" -> NotificationInputs

MainOf(h, i) ==
    CASE h = "confidence-scorer" -> scorer_main(i)
      [] h = "confidence-unified-posttool" -> posttool_main(i)
      [] h = "test-install/confidence-unified-posttool" -> posttool_ti_main(i)
      [] h = "confidence-validator" -> validator_main(i)
      [] h = "confidence-score-display" -> display_main(i)
      [] h = "confidence-unified-prompt" -> prompt_main(i)
      [] h = "confidence-notification-hook" -> notification_main(i)

\* hook h opens the transcript, the configuration file
TranscriptReaders == {h \in Hooks : \E i \in InputsOf(h) : i.transcript # NoFile}
ConfigReaders == {h \in Hooks : \E i \in InputsOf(h) : i.config # [k |-> "missing"]}
OpensTranscript(h) == h \in TranscriptReaders
OpensConfig(h) == h \in ConfigReaders

\* get_cache_stats, lines 88-99
get_cache_stats(cache, current_time) ==
    [cached |-> cache.data # None,
     valid |-> cache.data # None /\ current_time - cache.timestamp < ttl,
     age_seconds |-> current_time - cache.timestamp,
     ttl_seconds |-> ttl]

ProviderReaders ==
    {"get_cached_config", "get_min_confidence", "get_verbose_mode",
     "is_high_confidence_required"}

ProviderOperations == ProviderReaders \cup {"invalidate_cache", "get_cache_stats"}

\* what operation op returns when get_cached_config gave config; an
\* is_high_confidence_required that compares a non-number with 80 raises TypeError
provider_result(op, config, cache, current_time) ==
    CASE op = "get_cached_config" -> Returned(Some(config))
      [] op = "get_min_confidence" -> Returned(Some(config.minConfidence))
      [] op = "get_verbose_mode" -> Returned(Some(config.verbose))
      [] op = "is_high_confidence_required" ->
            IF config.minConfidence.k = "int"
            THEN Returned(Some(BoolVal(config.minConfidence.v > 80)))
            ELSE Raised
      [] op = "invalidate_cache" -> Returned(None)
      [] op = "get_cache_stats" -> Returned(Some(get_cache_stats(cache, current_time)))

FrameTranscripts ==
    {NoFile,
     [readable |-> TRUE,
      lines |-> <<Asst([k |-> "str", text |-> Text("Confidence: 73% all checks pass now", 0)]),
                  [k |-> "invalid"]>>]}

FrameFiles == {[k |-> "missing"], ConfigMap(IntVal(90), Absent, Absent)}

FrameFields ==
    {[k |-> "absent"],
     [k |-> "map", content |-> [k |-> "str", text |-> Text("maybe delete it, not sure", 0)]]}

\* the runs of SpecFrame: every hook, started up, on malformed input and on inputs
\* with and without a message, a tool name and a transcript path
FrameRuns ==
    {r \in UNION {{[h |-> h, i |-> i] : i \in InputsOf(h)} : h \in Hooks} :
        /\ r.i.load
        /\ r.i.stdin.k = "object"
              => /\ r.i.stdin.response \in FrameFields
                 /\ r.i.stdin.notification \in FrameFields
                 /\ r.i.stdin.tool_calls = <<>>
                 /\ r.i.stdin.tool_name \in {[k |-> "absent"], [k |-> "str", v |-> "Edit"]}}

FrameInit ==
    /\ fn = ""
    /\ arg \in FrameTranscripts
    /\ res = None
    /\ HookInit
    /\ config_cache = [data |-> None, timestamp |-> 0]
    /\ now = Epoch
    /\ config_file \in FrameFiles
    /\ calls = <<>>

\* a run of a hook on the files as they are
Frame_hook_run ==
    \E r \in FrameRuns :
        /\ runs < MaxRuns
        /\ r.i.transcript = IF OpensTranscript(r.h) THEN arg ELSE NoFile
        /\ r.i.config = IF OpensConfig(r.h) THEN HookView(config_file)
                        ELSE [k |-> "missing"]
        /\ hook' = r.h
        /\ inp' = r.i
        /\ out' = MainOf(r.h, r.i).out
        /\ exit' = MainOf(r.h, r.i).exit
        /\ fault' = MainOf(r.h, r.i).fault
        /\ pcts' = MainOf(r.h, r.i).pcts
        /\ runs' = runs + 1
        /\ arg' = IF OpensTranscript(r.h) /\ r.i.stdin.k = "object"
                     /\ r.i.stdin.transcript_path
                  THEN opened_for_reading(arg) ELSE arg
        /\ config_file' = IF OpensConfig(r.h) THEN opened_for_reading(config_file)
                          ELSE config_file
        /\ UNCHANGED <<fn, res, config_cache, now, calls>>

\* a call of an operation of config-cache.py in the long-lived process
Frame_provider_call ==
    \E op \in ProviderOperations :
        LET read == op \in ProviderReaders /\ ~cache_is_valid(config_cache, now)
            loaded == IF read THEN cache_after_load(config_file, now) ELSE config_cache
        IN  /\ fn' = op
            /\ res' = IF op \in ProviderReaders
                      THEN provider_result(op, loaded.data[1], loaded, now)
                      ELSE provider_result(op, <<>>, config_cache, now)
            /\ config_cache' = IF op = "invalidate_cache" THEN invalidated_cache
                               ELSE loaded
            /\ config_file' = IF read THEN opened_for_reading(config_file)
                              ELSE config_file
            /\ UNCHANGED <<arg, now, calls, hookVars>>

Frame_tick ==
    /\ now + ttl <= Epoch + MaxClock
    /\ now' = now + ttl
    /\ UNCHANGED <<config_cache, config_file, calls, pureVars, hookVars>>

FrameNext ==
    \/ Frame_hook_run
    \/ Frame_provider_call
    \/ Frame_tick

SpecFrame == FrameInit /\ [][FrameNext]_vars

config_path(files) ==
    IF files.local.k # "missing" THEN "local" ELSE "global"

LocalFiles == {[k |-> "missing"], [k |-> "corrupt"], ConfigMap(IntVal(20), Absent, Absent)}

GlobalFiles == {[k |-> "missing"], ConfigMap(IntVal(90), Absent, Absent)}

LocalInit ==
    /\ PureInit
    /\ HookInit
    /\ config_cache = [data |-> None, timestamp |-> 0]
    /\ now = Epoch
    /\ config_file \in {[local |-> l, global |-> g] : l \in LocalFiles, g \in GlobalFiles}
    /\ calls = <<>>

Local_get_cached_config ==
    /\ Len(calls) < MaxCalls
    /\ config_cache' = IF cache_is_valid(config_cache, now) THEN config_cache
                       ELSE cache_after_load(config_file[config_path(config_file)], now)
    /\ calls' = Append(calls, Call("get_cached_config", ~cache_is_valid(config_cache, now),
                                   config_cache'.data, Some(config_file)))
    /\ UNCHANGED <<now, config_file, pureVars, hookVars>>

Local_invalidate_cache ==
    /\ Len(calls) < MaxCalls
    /\ config_cache' = invalidated_cache
    /\ calls' = Append(calls, Call("invalidate_cache", FALSE, None, None))
    /\ UNCHANGED <<now, config_file, pureVars, hookVars>>

Local_tick ==
    \E d \in ClockSteps :
        /\ now + d <= Epoch + MaxClock
        /\ now' = now + d
        /\ UNCHANGED <<config_cache, config_file, calls, pureVars, hookVars>>

\* the user creates, rewrites or removes the project-local file
Local_write_local_file ==
    \E f \in LocalFiles :
        /\ f # config_file.local
        /\ config_file' = [config_file EXCEPT !.local = f]
        /\ UNCHANGED <<config_cache, now, calls, pureVars, hookVars>>

LocalNext ==
    \/ Local_get_cached_config
    \/ Local_invalidate_cache
    \/ Local_tick
    \/ Local_write_local_file

SpecLocal == LocalInit /\ [][LocalNext]_vars

\* C26 as stated: whenever a project-local configuration file exists at the time of
\* a get_cached_config call, the call returns the local file's configuration, also
\* when the global configuration was loaded earlier, no local file existing then.
C26_LocalPreferred ==
    \A j, k \in 1..Len(calls) :
        (/\ j < k
         /\ calls[j].read
         /\ calls[j].file[1].local.k = "missing"
         /\ \A m \in (j + 1)..(k - 1) : ~calls[m].read
         /\ calls[k].op = "get_cached_config"
         /\ calls[k].file[1].local.k = "map")
            => calls[k].value[1].minConfidence = calls[k].file[1].local.minConfidence

(***************************************************************************)
(* Further properties of the heuristic estimators.                         *)
(***************************************************************************)
\* the signal counts of a text, as the validator's estimate_confidence takes them
SignalCounts(t) ==
    [strong |-> AnyIn(Lower(t.s), {"successfully completed", "working correctly",
                                   "fixed the issue", "problem solved"}),
     success |-> CountIn(Lower(t.s), {"successfully", "completed", "fixed", "working",
                                      "done", "resolved"}),
     precision |-> AnyIn(Lower(t.s), {"exactly", "precisely", "specifically", "correct",
                                      "accurate"}),
     low |-> CountIn(t.s, {"Read", "LS", "Grep", "Glob"}),
     medium |-> CountIn(t.s, {"Bash", "WebFetch"}),
     high |-> CountIn(t.s, {"Edit", "Write", "MultiEdit"}),
     uncertainty |-> CountIn(Lower(t.s), {"not sure", "unclear", "uncertain", "i think",
                                          "i believe", "i assume"}),
     hedging |-> CountIn(Lower(t.s), {"might", "maybe", "possibly", "probably", "likely",
                                      "should work", "seems", "appears", "could be",
                                      "might be", "try this", "attempt to"}),
     questions |-> Count(t.s, "?"),
     errors |-> CountIn(Lower(t.s), {"error", "issue", "problem", "failed", "broken"}),
     solutions |-> CountIn(Lower(t.s), {"fix", "solve", "resolve", "correct"}),
     length |-> TLen(t),
     fences |-> Count(t.s, Fence),
     numbered |-> HasNumberedLine(t.s)]

\* the adjustments of the table for signal counts c, last rule first
TabledAdjustments(c) ==
    <<IF c.numbered THEN 5 ELSE 0,
      Min(c.fences * 6, 15),
      IF c.length < 30 THEN -15 ELSE IF c.length < 100 THEN -8
      ELSE IF c.length > 1000 THEN 8 ELSE 0,
      IF c.errors > c.solutions THEN -((c.errors - c.solutions) * 8) ELSE 0,
      -Min(c.questions * 4, 12),
      -(c.hedging * 6),
      -(c.uncertainty * 12),
      Min(c.high * 6, 12),
      Min(c.medium * 8, 15),
      Min(c.low * 5, 10),
      IF c.precision THEN 8 ELSE 0,
      Min(c.success * 8, 15),
      IF c.strong THEN 20 ELSE 0>>

RECURSIVE SumOf(_)
SumOf(adjustments) ==
    IF adjustments = <<>> THEN 0 ELSE Head(adjustments) + SumOf(Tail(adjustments))

TabledEstimate(t) == Clamp(15, 85, 35 + SumOf(TabledAdjustments(SignalCounts(t))))

ToolNameOnly(i) ==
    [i EXCEPT !.stdin.response = [k |-> "absent"], !.stdin.tool_calls = <<>>]

\* C28: when the input of confidence-scorer carries a non-blank tool_name, the outcome
\* is that of the run on the tool name alone, whatever the response text and the
\* tool_calls list hold, unless the response carries an explicit confidence
\* statement: then the hook writes nothing and exits 0.
C28_ToolNameDecides ==
    (/\ runs > 0
     /\ hook = "confidence-scorer"
     /\ fault = "none"
     /\ inp.stdin.k = "object"
     /\ inp.stdin.tool_name.k = "str"
     /\ Strip(inp.stdin.tool_name.v) # "")
        => LET m == Message(hook, inp)[1]
           IN  IF TStripLen(m) > 0 /\ has_confidence(m)
               THEN out = <<>> /\ exit = 0
               ELSE /\ out = scorer_main(ToolNameOnly(inp)).out
                    /\ exit = scorer_main(ToolNameOnly(inp)).exit

\* C28 witness: the read-only tool Read with a response of high-risk words and two
\* tool calls, one of them Edit, was allowed with the optional wording.
C28_Witness ==
    /\ hook = "confidence-scorer"
    /\ inp.stdin.k = "object"
    /\ inp.stdin.tool_name = [k |-> "str", v |-> "Read"]
    /\ Message(hook, inp) = Some(Text("delete the old build directory", 0))
    /\ inp.stdin.tool_calls = <<"WebFetch", "Edit">>
    /\ out = <<Allow("optional")>>
    /\ exit = 0

(***************************************************************************)
(* The skip tests and the extraction of explicit confidence statements.    *)
(***************************************************************************)
SkippingHooks ==
    {"confidence-score-display", "confidence-scorer", "confidence-unified-posttool"}

\* the test by which hook h takes message m to carry a confidence statement already
SkipTest(h, m) ==
    IF h = "confidence-score-display"
    THEN Contains(Lower(m.s), "confidence:") /\ Contains(m.s, "%")
    ELSE has_confidence(m)

\* C29 as stated: whenever a hook skips a message as already carrying a confidence
\* statement, the extraction pattern (confidence:, optional whitespace, 1 to 3 digits,
\* %) matches the message, and every message the pattern matches is skipped.
C29_SkipIffExtracts ==
    (/\ runs > 0
     /\ hook \in SkippingHooks
     /\ fault = "none"
     /\ Message(hook, inp) # None)
        => LET m == Message(hook, inp)[1]
           IN  /\ (SkipTest(hook, m) /\ out = <<>>)
                      => SearchConfidence(Lower(m.s)) # None
               /\ SearchConfidence(Lower(m.s)) # None => SkipTest(hook, m)

(***************************************************************************)
(* The risk of the tool calls.                                             *)
(***************************************************************************)
Severity(risk) ==
    CASE risk = "none" -> 0 [] risk = "low" -> 1 [] risk = "medium" -> 2 [] risk = "high" -> 3

\* the severities of the tool names of a list, each classified on its own
NameSeverities(tool_calls) ==
    {Severity(tool_call_risk(<<tool_calls[i]>>)) : i \in 1..Len(tool_calls)}

\* C30: the tool_call_risk of analyze_operation_risk is the maximum severity
\* (none < low < medium < high) over the individual tool names of the list, none for
\* the empty list, and so the same for every order of the tool calls.
C30_MaxSeverity ==
    fn = "tool_call_risk"
        => /\ \A x \in NameSeverities(arg.tools) : x <= Severity(res)
           /\ Severity(res) \in NameSeverities(arg.tools) \cup {0}
           /\ arg.tools = <<>> => res = "none"
           /\ \A i, j \in 1..Len(arg.tools) :
                 tool_call_risk([arg.tools EXCEPT ![i] = arg.tools[j],
                                                  ![j] = arg.tools[i]]) = res

\* C30 witness: a medium-risk tool followed by low-risk ones and the same calls in
\* another order both gave medium.
C30_Witness ==
    /\ fn = "tool_call_risk"
    /\ arg.tools = <<"WebFetch", "Read", "Read">>
    /\ res = "medium"
    /\ tool_call_risk(<<"Read", "WebFetch", "Read">>) = "medium"

====
